---- MODULE Spec2Model ----
(***************************************************************************)
(* Model of src/inode.c of the ntfs3 driver: the create / link / unlink    *)
(* sequences of the record builder (ntfs_create_inode, ntfs_link_inode,    *)
(* ntfs_unlink_inode) and the extent resolver with its writers             *)
(* (ntfs_get_block_vbo, ntfs_direct_IO, ntfs_set_size).                    *)
(*                                                                         *)
(* Every handler is one action.  A handler is written as a function from   *)
(* the state before the call to the state after it, following the control  *)
(* flow of the C code (the goto labels out1..out7 are operators).  The     *)
(* calls a handler makes are appended to the field tr, the call log of the *)
(* handler, so that the order of the calls can be stated.  Collaborators   *)
(* that can fail (allocators, index, name conversion) fail where the input *)
(* f of the action says so.                                                *)
(***************************************************************************)
EXTENDS Integers, Sequences, FiniteSets, TLC

\* ---------------------------------------------------------------- bounds
MaxRec == 2            \* free MFT records of the volume
MaxClusters == 2       \* free clusters of the volume
MaxOps == 3            \* calls made after mount
MaxClst == 2           \* clusters the data file may grow to
ResidentLen == 600     \* bytes of the resident file found at mount
MaxNames == 2          \* FILE_NAME attributes one record may hold
MaxAttrs == 3          \* attributes of the base record that is loaded
MaxList == 2           \* entries of its attribute list
MaxRestarts == 3       \* restarts of the attribute walk that are followed

\* ------------------------------------------------------ volume constants
Root == 5              \* MFT_REC_ROOT, the record of the root directory
RecordSize == 1024     \* sbi->record_size
ClusterBits == 13      \* sbi->cluster_bits
BlockBits == 12        \* sb->s_blocksize_bits

ClusterSize == 2 ^ ClusterBits
BlockSize == 2 ^ BlockBits

MFT_REC_FREE == 16     \* records below it are meta files
MFT_REC_USER == 24     \* the first record of a user file
PairIno == MFT_REC_USER         \* a file that exists at mount
DirIno == MFT_REC_USER + 1      \* a directory that exists at mount
Inos == (DirIno + 1)..(DirIno + MaxRec)   \* the free records
Recs == {Root, PairIno, DirIno} \cup Inos
Names == {"a", "b"}
Clusters == 1..MaxClusters

SPARSE_LCN == -1       \* lcn of a hole in a run list
MaxBytes == MaxClst * ClusterSize      \* sbi->maxbytes of the volume

FILE_NAME_POSIX == "POSIX"
FILE_NAME_UNICODE == "UNICODE"
FILE_NAME_DOS == "DOS"

\* A record that was never formatted.
NoRec == [inuse |-> FALSE, hard_links |-> 0, is_dir |-> FALSE, fnames |-> <<>>,
          seq |-> 0]

VARIABLES
    mrec,        \* record number -> MFT record (in-use flag, hard_links, FILE_NAME attributes)
    mft_used,    \* record numbers marked used in the MFT bitmap
    index,       \* directory index entries [dir, name, ino]
    run,         \* record number -> clusters of ni->file.run
    clst_used,   \* clusters marked used in the volume bitmap
    reparse,     \* record numbers registered in the reparse index
    i_nlink,     \* record number -> inode->i_nlink
    i_bad,       \* inodes made bad
    dcache,      \* instantiated dentries [dir, name, ino]
    dirty,       \* volume state NTFS_DIRTY_DIRTY
    ni_locked,   \* record numbers whose ni_lock is held
    posix_acl,   \* CONFIG_NTFS3_FS_POSIX_ACL and SB_POSIXACL
    nops,        \* calls made since mount
    i_size,      \* inode->i_size of the data file
    i_valid,     \* ni->i_valid of the data file
    frun,        \* ni->file.run of the data file: vcn + 1 -> lcn or SPARSE_LCN
    resident,    \* is_resident(ni)
    fsparse,     \* is_sparsed(ni)
    ret          \* the last call: its arguments, its error and its call log

nsvars == <<mrec, mft_used, index, run, clst_used, reparse, i_nlink, i_bad,
            dcache, dirty, ni_locked, posix_acl>>
iovars == <<i_size, i_valid, frun, resident, fsparse>>
vars == <<nsvars, iovars, nops, ret>>

\* The volume state as one record, the value the handlers transform.
Vol == [mrec |-> mrec, mft_used |-> mft_used, index |-> index, run |-> run,
        clst_used |-> clst_used, reparse |-> reparse, i_nlink |-> i_nlink,
        i_bad |-> i_bad, dcache |-> dcache, dirty |-> dirty,
        ni_locked |-> ni_locked, tr |-> <<>>, err |-> "0"]

Ev(s, e) == [s EXCEPT !.tr = Append(@, e)]

Ent(d, n, i) == [dir |-> d, name |-> n, ino |-> i]
Fname(d, n, t) == [home |-> d, name |-> n, type |-> t]

HasEntry(s, d, n) == \E e \in s.index : e.dir = d /\ e.name = n

\* ------------------------------------------------------------ collaborators
ntfs_set_state(s) == Ev([s EXCEPT !.dirty = TRUE], "ntfs_set_state")

ntfs_look_free_mft(s, ino) ==
    Ev([s EXCEPT !.mft_used = @ \cup {ino}], "ntfs_look_free_mft")

ntfs_mark_rec_free(s, ino) ==
    Ev([s EXCEPT !.mft_used = @ \ {ino}], "ntfs_mark_rec_free")

\* ntfs_new_inode formats the record (in use, the sequence number one above
\* the one the record had) and sets up the inode; line 1323 sets hard_links
\* to 1.
ntfs_new_inode(s, ino, isdir) ==
    Ev([s EXCEPT !.mrec[ino] = [inuse |-> TRUE, hard_links |-> 1,
                                is_dir |-> isdir, fnames |-> <<>>,
                                seq |-> s.mrec[ino].seq + 1],
                 !.i_nlink[ino] = 1,
                 !.run[ino] = {}], "ntfs_new_inode")

clear_rec_inuse(s, ino) ==
    Ev([s EXCEPT !.mrec[ino].inuse = FALSE], "clear_rec_inuse")

clear_nlink(s, ino) == Ev([s EXCEPT !.i_nlink[ino] = 0], "clear_nlink")

\* The new inode is dropped with ni->mi.dirty = false (line 1651): its
\* record never reaches the disk, which keeps the unformatted record.
discard_new_inode(s, ino) ==
    Ev([s EXCEPT !.mrec[ino] = [NoRec EXCEPT !.seq = s.mrec[ino].seq - 1]],
       "discard_new_inode")

indx_insert_entry(s, d, n, ino) ==
    Ev([s EXCEPT !.index = @ \cup {Ent(d, n, ino)}], "indx_insert_entry")

indx_delete_entry(s, d, n) ==
    Ev([s EXCEPT !.index = {e \in @ : ~(e.dir = d /\ e.name = n)}],
       "indx_delete_entry")

ntfs_insert_reparse(s, ino) ==
    Ev([s EXCEPT !.reparse = @ \cup {ino}], "ntfs_insert_reparse")

ntfs_remove_reparse(s, ino) ==
    Ev([s EXCEPT !.reparse = @ \ {ino}], "ntfs_remove_reparse")

\* attr_allocate_clusters takes clst free clusters for the run of ino.
FreeClusters(s) == Clusters \ s.clst_used

attr_allocate_clusters(s, ino, cs) ==
    Ev([s EXCEPT !.run[ino] = @ \cup cs, !.clst_used = @ \cup cs],
       "attr_allocate_clusters")

run_is_empty(s, ino) == s.run[ino] = {}

run_deallocate(s, ino) ==
    Ev([s EXCEPT !.clst_used = @ \ s.run[ino], !.run[ino] = {}],
       "run_deallocate")

d_instantiate(s, d, n, ino) ==
    Ev([s EXCEPT !.dcache = @ \cup {Ent(d, n, ino)}], "d_instantiate")

\* ------------------------------------------------------- reparse payload
\* ntfs_reparse_bytes: header + unicode string + decorated unicode string
ntfs_reparse_bytes(uni_len) == 2 * (2 * uni_len + 4) + 20

QuadAlign(n) == ((n + 7) \div 8) * 8

bytes_to_cluster(n) == (n + ClusterSize - 1) \div ClusterSize

\* Sizes of the record layout that ntfs_create_inode adds up.
SIZEOF_RESIDENT == 24          \* 0x18, header of a resident attribute
SIZEOF_NONRESIDENT == 64       \* 0x40, header of a non-resident attribute
MFTRECORD_ATTR_OFF == 56       \* rec->attr_off of a freshly formatted record
SIZEOF_STD_INFO5 == 72         \* sizeof(struct ATTR_STD_INFO5)
SIZEOF_ATTRIBUTE_FILENAME == 66 \* key_size of a name of length 0

\* key_size filled in by fill_name_de for a name of uni_len characters
key_size(uni_len) == SIZEOF_ATTRIBUTE_FILENAME + 2 * uni_len

\* PtrOffset(rec, attr) where the symlink's ATTR_REPARSE is placed: after
\* ATTR_STD (with security id), ATTR_NAME and the empty resident ATTR_DATA.
ReparseAttrOff(uni_len) ==
    MFTRECORD_ATTR_OFF + (SIZEOF_RESIDENT + SIZEOF_STD_INFO5)
    + QuadAlign(SIZEOF_RESIDENT + key_size(uni_len)) + SIZEOF_RESIDENT

\* The test of line 1507 without the end marker.
ReparseNonResident_noend(nsize, t16) ==
    QuadAlign(SIZEOF_RESIDENT + nsize) + t16 > RecordSize

\* "resident or non resident?" (line 1507)
ReparseNonResident(nsize, t16) ==
    QuadAlign(SIZEOF_RESIDENT + nsize) + t16 + 8 > RecordSize

\* ------------------------------------------------------- reparse codec
\* Names are sequences of character codes; the code page maps the codes
\* used here to the same UTF-16 unit.  A tag is its Microsoft bit, its
\* name-surrogate bit and the rest of its value.
SLASH == 47
BACKSLASH == 92
QUESTION == 63
Tag(ms, ns, val) == [ms |-> ms, ns |-> ns, val |-> val]
IO_REPARSE_TAG_MOUNT_POINT == Tag(TRUE, TRUE, 3)
IO_REPARSE_TAG_SYMLINK == Tag(TRUE, TRUE, 12)
IO_REPARSE_TAG_CLOUD(k) == Tag(TRUE, FALSE, 4096 * k + 26)
CloudTags == {IO_REPARSE_TAG_CLOUD(k) : k \in 0..15}
SIZEOF_REPARSE_POINT == 24
OneDrive == <<79, 110, 101, 68, 114, 105, 118, 101>>

\* create_reparse_nsize that takes a payload of any size.
create_reparse_nsize_any(size, max_size, f) ==
    IF f = "ntfs_zalloc" THEN [err |-> "ENOMEM", nsize |-> 0]
    ELSE IF f = "ntfs_nls_to_utf16" THEN [err |-> "EINVAL", nsize |-> 0]
    ELSE [err |-> "0", nsize |-> ntfs_reparse_bytes(size) % 65536]

\* Lines 1141-1160 of ntfs_create_reparse_buffer: the converted name has
\* as many units as symname has bytes; nsize is the u16 the caller gets.
create_reparse_nsize(size, max_size, f) ==
    IF f = "ntfs_zalloc" THEN [err |-> "ENOMEM", nsize |-> 0]
    ELSE IF f = "ntfs_nls_to_utf16" THEN [err |-> "EINVAL", nsize |-> 0]
    ELSE LET nsize == ntfs_reparse_bytes(size) % 65536 IN
         IF nsize > max_size THEN [err |-> "EFBIG", nsize |-> 0]
         ELSE [err |-> "0", nsize |-> nsize]

\* ntfs_create_reparse_buffer: rp.path holds the units of PathBuffer.  The
\* print name is at offset 0 (the buffer is zeroed), the substitute name
\* behind it.
create_reparse_buffer(symname, max_size, f) ==
    LET r == create_reparse_nsize(Len(symname), max_size, f)
        err == Len(symname)
        name == [i \in 1..err |-> IF symname[i] = SLASH THEN BACKSLASH
                                  ELSE symname[i]]
    IN
    IF r.err # "0" THEN [err |-> r.err]
    ELSE [err |-> "0", nsize |-> r.nsize,
          rp |-> [tag |-> IO_REPARSE_TAG_SYMLINK,
                  data_len |-> (r.nsize - 8) % 65536,
                  sub_off |-> (2 * err) % 65536,
                  sub_len |-> (2 * err + 8) % 65536,
                  off |-> 0,
                  len |-> (2 * err) % 65536,
                  path |-> name \o <<BACKSLASH, QUESTION, QUESTION,
                                     BACKSLASH>> \o name]]

\* The size the volume allows a reparse payload, and the length of a path
\* the VFS passes, terminator included.
MAXIMUM_REPARSE_DATA_BUFFER_SIZE == 16384
PATH_MAX == 4096

\* ------------------------------------------------------ ntfs_create_inode
\* c is the call: c.dir, c.name, c.mode ("reg", "dir", "lnk", "spec"),
\* c.size (length of symname), c.ino (the record ntfs_look_free_mft finds),
\* c.f (the collaborator that fails, "none" if none).
is_dir(c) == c.mode = "dir"
is_link(c) == c.mode = "lnk"
is_sp(c) == c.mode = "spec"

\* ------------------------------------------------------- record layout
\* The attributes ntfs_create_inode writes into the record of the new
\* inode, lines 1342-1564.  The call c says what is made: c.mode, the
\* length c.uni_len of the name in UTF-16 units, c.sec (the volume gave a
\* security id, line 1345), c.opt (the option sparse, or a parent that is
\* compressed), c.size (length of symname), c.cbits (sbi->cluster_bits) and
\* c.packed (the bytes the run list of the payload takes when packed).
SIZEOF_STD_INFO == 48          \* sizeof(struct ATTR_STD_INFO)
SIZEOF_NONRESIDENT_EX == 72    \* 0x48, header with total_size
SIZEOF_SD == 80                \* sizeof(s_default_security)
SIZEOF_I30_NAME == 8           \* sizeof(I30_NAME)
SIZEOF_INDEX_ROOT == 32        \* sizeof(struct INDEX_ROOT)
SIZEOF_NTFS_DE == 16           \* sizeof(struct NTFS_DE)
NTFS_NAME_LEN == 255           \* units of the longest file name

\* A resident attribute with dsize bytes of data in asize bytes.
ResAttr(type, asize, dsize) ==
    [type |-> type, size |-> asize, non_res |-> FALSE, data_size |-> dsize,
     valid_size |-> dsize, alloc_size |-> dsize, clst |-> 0]

\* A non-resident attribute of asize bytes whose run list maps clst
\* clusters (nres.evcn = clst - 1).
NonResAttr(type, asize, dsize, alloc, clst) ==
    [type |-> type, size |-> asize, non_res |-> TRUE, data_size |-> dsize,
     valid_size |-> dsize, alloc_size |-> alloc, clst |-> clst]

\* PtrOffset(rec, attr) behind the attributes written so far.
RECURSIVE AttrEnd(_)
AttrEnd(attrs) ==
    IF attrs = <<>> THEN MFTRECORD_ATTR_OFF
    ELSE AttrEnd(SubSeq(attrs, 1, Len(attrs) - 1)) + attrs[Len(attrs)].size

\* create_attrs that leaves the security descriptor out.
create_attrs_nosecure(c) ==
    LET std == IF c.sec
               THEN ResAttr("ATTR_STD", SIZEOF_RESIDENT + SIZEOF_STD_INFO5,
                            SIZEOF_STD_INFO5)
               ELSE ResAttr("ATTR_STD", SIZEOF_RESIDENT + SIZEOF_STD_INFO,
                            SIZEOF_STD_INFO)
        name == ResAttr("ATTR_NAME",
                        QuadAlign(SIZEOF_RESIDENT + key_size(c.uni_len)),
                        key_size(c.uni_len))
        secure == IF TRUE THEN <<>>
                  ELSE <<ResAttr("ATTR_SECURE",
                                 SIZEOF_RESIDENT + QuadAlign(SIZEOF_SD),
                                 SIZEOF_SD)>>
        kind == IF is_dir(c)
                THEN ResAttr("ATTR_ROOT",
                             SIZEOF_I30_NAME + SIZEOF_RESIDENT
                             + SIZEOF_INDEX_ROOT + SIZEOF_NTFS_DE,
                             SIZEOF_INDEX_ROOT + SIZEOF_NTFS_DE)
                ELSE IF is_link(c)
                THEN ResAttr("ATTR_DATA", SIZEOF_RESIDENT, 0)
                ELSE NonResAttr("ATTR_DATA",
                                (IF c.opt \in {"sparse", "compressed"}
                                 THEN SIZEOF_NONRESIDENT_EX
                                 ELSE SIZEOF_NONRESIDENT) + 8, 0, 0, 0)
    IN <<std, name>> \o secure \o <<kind>>

\* Lines 1342-1480: ATTR_STD, ATTR_NAME, ATTR_SECURE if there is no
\* security id, and the attribute of the kind.
create_attrs(c) ==
    LET std == IF c.sec
               THEN ResAttr("ATTR_STD", SIZEOF_RESIDENT + SIZEOF_STD_INFO5,
                            SIZEOF_STD_INFO5)
               ELSE ResAttr("ATTR_STD", SIZEOF_RESIDENT + SIZEOF_STD_INFO,
                            SIZEOF_STD_INFO)
        name == ResAttr("ATTR_NAME",
                        QuadAlign(SIZEOF_RESIDENT + key_size(c.uni_len)),
                        key_size(c.uni_len))
        secure == IF c.sec THEN <<>>
                  ELSE <<ResAttr("ATTR_SECURE",
                                 SIZEOF_RESIDENT + QuadAlign(SIZEOF_SD),
                                 SIZEOF_SD)>>
        kind == IF is_dir(c)
                THEN ResAttr("ATTR_ROOT",
                             SIZEOF_I30_NAME + SIZEOF_RESIDENT
                             + SIZEOF_INDEX_ROOT + SIZEOF_NTFS_DE,
                             SIZEOF_INDEX_ROOT + SIZEOF_NTFS_DE)
                ELSE IF is_link(c)
                THEN ResAttr("ATTR_DATA", SIZEOF_RESIDENT, 0)
                ELSE NonResAttr("ATTR_DATA",
                                (IF c.opt \in {"sparse", "compressed"}
                                 THEN SIZEOF_NONRESIDENT_EX
                                 ELSE SIZEOF_NONRESIDENT) + 8, 0, 0, 0)
    IN <<std, name>> \o secure \o <<kind>>

\* rec->used of line 1563.
create_rec_used(attrs) == AttrEnd(attrs) + 8

\* run_pack with a buffer of t16 bytes: c.packed bytes hold the whole run
\* list, and a list that does not fit is packed in part.
run_pack(c, t16) ==
    IF c.f = "run_pack" THEN [err |-> "E2BIG", n |-> 0]
    ELSE IF c.f = "run_pack_vcn" \/ c.packed > t16
    THEN [err |-> "EINVAL", n |-> 0]
    ELSE [err |-> "0", n |-> c.packed]

\* The record of a create that comes to line 1560: its attributes, the
\* end marker behind them and rec->used; nsize as line 1618 finds it.
create_rec(c) ==
    LET attrs == create_attrs(c)
        done(as, nsize) == [err |-> "0", attrs |-> as, nsize |-> nsize,
                            used |-> create_rec_used(as)]
        fail(e) == [err |-> e, attrs |-> <<>>, nsize |-> 0, used |-> 0]
    IN
    IF ~is_link(c) THEN done(attrs, 0)
    ELSE LET rb == create_reparse_nsize(c.size,
                                        MAXIMUM_REPARSE_DATA_BUFFER_SIZE,
                                        "none")
         IN
         IF rb.err # "0" THEN fail(rb.err)
         ELSE LET nsize == rb.nsize
                  t16 == AttrEnd(attrs)
                  csize == 2 ^ c.cbits
                  clst == (nsize + csize - 1) \div csize
              IN
              IF ReparseNonResident(nsize, t16)
              THEN LET r == run_pack(c, (RecordSize - t16
                                         - SIZEOF_NONRESIDENT) % 65536)
                   IN
                   IF r.err # "0" THEN fail(r.err)
                   ELSE done(Append(attrs,
                                    NonResAttr("ATTR_REPARSE",
                                               SIZEOF_NONRESIDENT
                                               + QuadAlign(r.n),
                                               nsize, clst * csize, clst)),
                             nsize)
              ELSE done(Append(attrs,
                               ResAttr("ATTR_REPARSE",
                                       QuadAlign(SIZEOF_RESIDENT + nsize),
                                       nsize)), 0)

create_out1(s, err) ==
    IF err # "0" THEN [s EXCEPT !.err = err]
    ELSE Ev([s EXCEPT !.err = "0"], "unlock_new_inode")

create_out2(s, err) == create_out1(Ev(s, "__putname"), err)

create_out3_leak(s, c, err) == create_out2(s, err)

create_out3(s, c, err) == create_out2(ntfs_mark_rec_free(s, c.ino), err)

create_out4(s, c, err) ==
    create_out3(discard_new_inode(clear_nlink(clear_rec_inuse(s, c.ino), c.ino),
                                  c.ino), c, err)

create_out5_leak(s, c, err) == create_out4(s, c, err)

create_out5(s, c, err) ==
    IF is_dir(c) \/ run_is_empty(s, c.ino)
    THEN create_out4(s, c, err)
    ELSE create_out4(run_deallocate(s, c.ino), c, err)

create_out6(s, c, rp_inserted, err) ==
    create_out5(IF rp_inserted THEN ntfs_remove_reparse(s, c.ino) ELSE s,
                c, err)

create_out7(s, c, rp_inserted, err) ==
    create_out6(indx_delete_entry(s, c.dir, c.name), c, rp_inserted, err)

\* From "Step 2: Add new name in index" to the normal exit.  nsize is the
\* local nsize: the payload size if it is stored non-resident, else 0.
create_step2(s, c, rp_inserted, nsize) ==
    IF c.f = "indx_insert_entry" \/ HasEntry(s, c.dir, c.name)
    THEN create_out6(s, c, rp_inserted,
                     IF HasEntry(s, c.dir, c.name) THEN "EEXIST" ELSE "ENOSPC")
    ELSE LET s1 == indx_insert_entry(s, c.dir, c.name, c.ino) IN
         IF c.acl /\ ~is_link(c) /\ c.f = "ntfs_init_acl"
         THEN create_out6(s1, c, rp_inserted, "ENOMEM")
         ELSE LET s2 == IF c.acl /\ ~is_link(c) THEN Ev(s1, "ntfs_init_acl")
                        ELSE s1 IN
              IF nsize # 0 /\ c.f = "ntfs_sb_write_run"
              THEN create_out7(s2, c, rp_inserted, "EIO")
              ELSE LET s3 == IF nsize # 0 THEN Ev(s2, "ntfs_sb_write_run")
                             ELSE s2 IN
                   create_out2(d_instantiate(s3, c.dir, c.name, c.ino), "0")

\* The symlink branch, lines 1487-1558: build the payload and insert
\* ATTR_REPARSE resident or non-resident.
create_reparse(s, c) ==
    LET rb == create_reparse_nsize(c.size, MAXIMUM_REPARSE_DATA_BUFFER_SIZE,
                                   IF c.f = "ntfs_create_reparse_buffer"
                                   THEN "ntfs_zalloc" ELSE "none")
    IN
    IF rb.err # "0"
    THEN create_out4(s, c, rb.err)
    ELSE LET nsize == rb.nsize
             t16 == ReparseAttrOff(1)
             clst == bytes_to_cluster(nsize)
         IN
         IF ReparseNonResident(nsize, t16)
         THEN IF c.f = "attr_allocate_clusters"
                 \/ Cardinality(FreeClusters(s)) < clst
              THEN create_out5(s, c, "ENOSPC")
              ELSE LET cs == CHOOSE x \in SUBSET FreeClusters(s) :
                                 Cardinality(x) = clst
                       s1 == attr_allocate_clusters(s, c.ino, cs)
                   IN
                   IF c.f = "run_pack"
                   THEN create_out5(s1, c, "E2BIG")
                   ELSE IF c.f = "run_pack_vcn"
                   THEN create_out5(s1, c, "EINVAL")
                   ELSE IF c.f = "ntfs_insert_reparse"
                   THEN create_out5(Ev(s1, "run_pack"), c, "ENOSPC")
                   ELSE create_step2(ntfs_insert_reparse(Ev(s1, "run_pack"), c.ino),
                                     c, TRUE, nsize)
         ELSE IF c.f = "ntfs_insert_reparse"
              THEN create_out5(s, c, "ENOSPC")
              ELSE create_step2(ntfs_insert_reparse(s, c.ino), c, TRUE, 0)

\* The record gets ATTR_STD and ATTR_NAME (lines 1342-1394), then the
\* attribute of its kind.
create_fill(s, c) ==
    IF c.f = "fill_name_de"
    THEN create_out4(s, c, "EINVAL")
    ELSE LET s1 == [s EXCEPT !.mrec[c.ino].fnames =
                        <<Fname(c.dir, c.name, FILE_NAME_POSIX)>>] IN
         IF is_dir(c)
         THEN IF c.f = "indx_init"
              THEN create_out4(s1, c, "EINVAL")
              ELSE create_step2(Ev(s1, "indx_init"), c, FALSE, 0)
         ELSE IF is_link(c)
         THEN create_reparse(s1, c)
         ELSE create_step2(s1, c, FALSE, 0)

create_inode(s, c) ==
    IF is_sp(c) THEN [s EXCEPT !.err = "EOPNOTSUPP"]
    ELSE IF c.f = "indx_get_root" THEN [s EXCEPT !.err = "EINVAL"]
    ELSE IF c.f = "__getname" THEN create_out1(s, "ENOMEM")
    ELSE LET s1 == ntfs_set_state(s) IN
         IF c.f = "ntfs_look_free_mft" \/ c.ino \notin Inos
         THEN create_out2(s1, "ENOSPC")
         ELSE LET s2 == ntfs_look_free_mft(s1, c.ino) IN
              IF c.f = "ntfs_new_inode"
              THEN create_out3(s2, c, "ENOMEM")
              ELSE create_fill(ntfs_new_inode(s2, c.ino, is_dir(c)), c)

\* -------------------------------------------------------- ntfs_link_inode
\* ni_insert_resident appends the new FILE_NAME attribute to the record.
ni_insert_resident(s, ino, fn) ==
    Ev([s EXCEPT !.mrec[ino].fnames = Append(@, fn)], "ni_insert_resident")

le16_add_cpu(v, d) == (v + d) % 65536

link_out(s, err) == [Ev(s, "__putname") EXCEPT !.err = err]

\* link_inode that counts the link before the entry is inserted.
link_inode_early(s, c) ==
    IF c.f = "indx_get_root" THEN [s EXCEPT !.err = "EINVAL"]
    ELSE IF c.f = "__getname" THEN [s EXCEPT !.err = "ENOMEM"]
    ELSE LET s1 == ntfs_set_state(s) IN
         IF c.f = "fill_name_de" THEN link_out(s1, "EINVAL")
         ELSE IF c.f = "ni_insert_resident" THEN link_out(s1, "ENOSPC")
         ELSE LET s2 == [ni_insert_resident(s1, c.ino,
                            Fname(c.dir, c.name, FILE_NAME_POSIX))
                         EXCEPT !.mrec[c.ino].hard_links = le16_add_cpu(@, 1)]
              IN
              IF c.f = "indx_insert_entry" \/ HasEntry(s2, c.dir, c.name)
              THEN link_out(s2, IF HasEntry(s2, c.dir, c.name)
                                THEN "EEXIST" ELSE "ENOSPC")
              ELSE LET s3 == indx_insert_entry(s2, c.dir, c.name, c.ino) IN
                   link_out(s3, "0")

\* c.ino is the linked inode, c.dir and c.name the new dentry.
\* ntfs_link_inode that marks the volume dirty after the name is in the
\* record.
link_inode_late(s, c) ==
    IF c.f = "indx_get_root" THEN [s EXCEPT !.err = "EINVAL"]
    ELSE IF c.f = "__getname" THEN [s EXCEPT !.err = "ENOMEM"]
    ELSE IF c.f = "fill_name_de" THEN link_out(s, "EINVAL")
    ELSE IF c.f = "ni_insert_resident" THEN link_out(s, "ENOSPC")
    ELSE LET s2 == ntfs_set_state(ni_insert_resident(s, c.ino,
                       Fname(c.dir, c.name, FILE_NAME_POSIX))) IN
         IF c.f = "indx_insert_entry" \/ HasEntry(s2, c.dir, c.name)
         THEN link_out(s2, IF HasEntry(s2, c.dir, c.name)
                           THEN "EEXIST" ELSE "ENOSPC")
         ELSE LET s3 == indx_insert_entry(s2, c.dir, c.name, c.ino) IN
              link_out([s3 EXCEPT !.mrec[c.ino].hard_links =
                                       le16_add_cpu(@, 1)], "0")

link_inode(s, c) ==
    IF c.f = "indx_get_root" THEN [s EXCEPT !.err = "EINVAL"]
    ELSE IF c.f = "__getname" THEN [s EXCEPT !.err = "ENOMEM"]
    ELSE LET s1 == ntfs_set_state(s) IN
         IF c.f = "fill_name_de" THEN link_out(s1, "EINVAL")
         ELSE IF c.f = "ni_insert_resident" THEN link_out(s1, "ENOSPC")
         ELSE LET s2 == ni_insert_resident(s1, c.ino,
                            Fname(c.dir, c.name, FILE_NAME_POSIX)) IN
              IF c.f = "indx_insert_entry" \/ HasEntry(s2, c.dir, c.name)
              THEN link_out(s2, IF HasEntry(s2, c.dir, c.name)
                                THEN "EEXIST" ELSE "ENOSPC")
              ELSE LET s3 == indx_insert_entry(s2, c.dir, c.name, c.ino) IN
                   link_out([s3 EXCEPT !.mrec[c.ino].hard_links =
                                            le16_add_cpu(@, 1)], "0")

\* ------------------------------------------------------ ntfs_unlink_inode
paired_name(type) ==
    IF type = FILE_NAME_UNICODE THEN FILE_NAME_DOS
    ELSE IF type = FILE_NAME_DOS THEN FILE_NAME_UNICODE
    ELSE FILE_NAME_POSIX

\* Position of the first FILE_NAME attribute among the positions ks, 0 if
\* there is none.
FirstFname(ks) ==
    IF ks = {} THEN 0 ELSE CHOOSE k \in ks : \A j \in ks : k <= j

ni_fname_name(s, ino, d, n) ==
    LET fns == s.mrec[ino].fnames
    IN FirstFname({k \in 1..Len(fns) : fns[k].home = d /\ fns[k].name = n})

ni_fname_type(s, ino, type) ==
    LET fns == s.mrec[ino].fnames
    IN FirstFname({k \in 1..Len(fns) : fns[k].type = type})

RemoveAt(q, k) == [j \in 1..(Len(q) - 1) |-> IF j < k THEN q[j] ELSE q[j + 1]]

ni_remove_attr_le(s, ino, k) ==
    Ev([s EXCEPT !.mrec[ino].fnames = RemoveAt(@, k)], "ni_remove_attr_le")

dec_hard_links_skip(s, ino) == s

dec_hard_links(s, ino) ==
    Ev([s EXCEPT !.mrec[ino].hard_links = le16_add_cpu(@, -1)],
       "hard_links-1")

dir_is_empty(s, ino) == ~\E e \in s.index : e.dir = ino

ntfs_is_meta_file(ino) == ino < MFT_REC_FREE

ni_lock(s, ino) == Ev([s EXCEPT !.ni_locked = @ \cup {ino}], "ni_lock")
ni_unlock(s, ino) == Ev([s EXCEPT !.ni_locked = @ \ {ino}], "ni_unlock")

drop_nlink(s, ino) == Ev([s EXCEPT !.i_nlink[ino] = @ - 1], "drop_nlink")
make_bad_inode(s, ino) == Ev([s EXCEPT !.i_bad = @ \cup {ino}],
                             "make_bad_inode")

unlink_out1_locked(s, c, err) == [s EXCEPT !.err = err]

unlink_out1(s, c, err) == [ni_unlock(s, c.ino) EXCEPT !.err = err]

unlink_out2(s, c, err) == unlink_out1(Ev(s, "__putname"), c, err)

unlink_out3_unlocked(s, c, err) ==
    LET s0 == ni_unlock(s, c.ino)
        s1 == IF err = "0" THEN drop_nlink(s0, c.ino)
              ELSE IF err \in {"ENOTEMPTY", "ENOSPC", "EROFS"} THEN s0
              ELSE make_bad_inode(s0, c.ino)
    IN [Ev(Ev(s1, "mark_inode_dirty"), "__putname") EXCEPT !.err = err]

\* out3 that never marks the inode bad.
unlink_out3_nobad(s, c, err) ==
    LET s1 == IF err = "0" THEN drop_nlink(s, c.ino) ELSE s
    IN unlink_out2(Ev(s1, "mark_inode_dirty"), c, err)

unlink_out3(s, c, err) ==
    LET s1 == IF err = "0" THEN drop_nlink(s, c.ino)
              ELSE IF err \in {"ENOTEMPTY", "ENOSPC", "EROFS"} THEN s
              ELSE make_bad_inode(s, c.ino)
    IN unlink_out2(Ev(s1, "mark_inode_dirty"), c, err)

\* unlink_paired that leaves the paired name where it is.
unlink_paired_keep(s, c, name_type) == unlink_out3(s, c, "0")

\* Lines 1814-1827: the paired name, looked up by its type.
unlink_paired(s, c, name_type) ==
    IF name_type # FILE_NAME_POSIX
    THEN LET k == ni_fname_type(s, c.ino, name_type) IN
         IF k # 0
         THEN LET fn == s.mrec[c.ino].fnames[k] IN
              IF c.f = "indx_delete_entry_2" \/ ~HasEntry(s, c.dir, fn.name)
              THEN unlink_out3(s, c, IF HasEntry(s, c.dir, fn.name)
                                     THEN c.e ELSE "EINVAL")
              ELSE unlink_out3(dec_hard_links(
                       ni_remove_attr_le(indx_delete_entry(s, c.dir, fn.name),
                                         c.ino, k), c.ino), c, "0")
         ELSE unlink_out3(s, c, "0")
    ELSE unlink_out3(s, c, "0")

\* c.dir and c.name are the dentry, c.ino its inode.
unlink_inode(s, c) ==
    IF c.f = "indx_get_root" THEN [s EXCEPT !.err = "EINVAL"]
    ELSE LET s1 == ni_lock(s, c.ino) IN
         IF s.mrec[c.ino].is_dir /\ ~dir_is_empty(s1, c.ino)
         THEN unlink_out1(s1, c, "ENOTEMPTY")
         ELSE IF ntfs_is_meta_file(c.ino)
         THEN unlink_out1(s1, c, "EINVAL")
         ELSE IF c.f = "__getname"
         THEN unlink_out1(s1, c, "ENOMEM")
         ELSE IF c.f = "ntfs_nls_to_utf16"
         THEN unlink_out2(s1, c, "EINVAL")
         ELSE LET s2 == ntfs_set_state(s1)
                  k == ni_fname_name(s2, c.ino, c.dir, c.name)
              IN
              IF k = 0 THEN unlink_out3(s2, c, "ENOENT")
              ELSE LET fn == s2.mrec[c.ino].fnames[k]
                       name_type == paired_name(fn.type)
                   IN
                   IF c.f = "indx_delete_entry" \/ ~HasEntry(s2, c.dir, fn.name)
                   THEN unlink_out3(s2, c, IF HasEntry(s2, c.dir, fn.name)
                                           THEN c.e ELSE "EINVAL")
                   ELSE unlink_paired(
                            dec_hard_links(
                                ni_remove_attr_le(
                                    indx_delete_entry(s2, c.dir, fn.name),
                                    c.ino, k), c.ino),
                            c, name_type)

\* ----------------------------------------------------- the data file
\* The state of the file as one record.
File == [i_size |-> i_size, i_valid |-> i_valid, frun |-> frun,
         resident |-> resident, fsparse |-> fsparse]

Min(a, b) == IF a < b THEN a ELSE b

\* The cluster the allocator gives to vcn: pairs of contiguous clusters.
LcnOf(vcn) == 100 + vcn + 10 * (vcn \div 2)

\* Length of the run that holds vcn, counted from vcn: the clusters that
\* follow are all sparse, or physically contiguous.
RECURSIVE RunLen(_, _)
RunLen(r, vcn) ==
    IF vcn + 1 >= Len(r) THEN 1
    ELSE IF (r[vcn + 1] = SPARSE_LCN /\ r[vcn + 2] = SPARSE_LCN)
            \/ (r[vcn + 1] # SPARSE_LCN /\ r[vcn + 2] = r[vcn + 1] + 1)
         THEN 1 + RunLen(r, vcn + 1)
         ELSE 1

\* attr_data_get_block(ni, vcn, 1, &lcn, &len, new): the run that holds vcn.
\* With new given, a hole is filled by the allocator.  f says whether the
\* call fails.
attr_data_get_block(st, vcn, create, f) ==
    IF f = "attr_data_get_block"
    THEN [err |-> "EIO", lcn |-> 0, len |-> 0, new |-> FALSE, frun |-> st.frun]
    ELSE IF vcn >= Len(st.frun)
    THEN [err |-> "EINVAL", lcn |-> 0, len |-> 0, new |-> FALSE,
          frun |-> st.frun]
    ELSE IF st.frun[vcn + 1] = SPARSE_LCN /\ create
    THEN IF f = "allocate"
         THEN [err |-> "ENOSPC", lcn |-> 0, len |-> 0, new |-> FALSE,
               frun |-> st.frun]
         ELSE [err |-> "0", lcn |-> LcnOf(vcn), len |-> 1, new |-> TRUE,
               frun |-> [st.frun EXCEPT ![vcn + 1] = LcnOf(vcn)]]
    ELSE [err |-> "0", lcn |-> st.frun[vcn + 1], len |-> RunLen(st.frun, vcn),
          new |-> FALSE, frun |-> st.frun]

GET_BLOCK_GENERAL == "GENERAL"
GET_BLOCK_WRITE_BEGIN == "WRITE_BEGIN"
GET_BLOCK_DIRECT_IO_R == "DIRECT_IO_R"
GET_BLOCK_DIRECT_IO_W == "DIRECT_IO_W"
GET_BLOCK_BMAP == "BMAP"
Ctxs == {GET_BLOCK_GENERAL, GET_BLOCK_WRITE_BEGIN, GET_BLOCK_DIRECT_IO_R,
         GET_BLOCK_DIRECT_IO_W, GET_BLOCK_BMAP}

\* The buffer head the callers pass: b_state 0 and the wanted size.
\* zero is the page segment zeroed by the call, as file offsets <<from, to>>.
Bh0(b_size) == [mapped |-> FALSE, new |-> FALSE, uptodate |-> FALSE,
                b_size |-> b_size, b_blocknr |-> -1, zero |-> <<>>]

GbRet(st, bh, err, tr) == [st |-> st, bh |-> bh, err |-> err, tr |-> tr]

\* r with the calls tr made before it.
GbTr(r, tr) == [r EXCEPT !.tr = tr \o @]

\* Lines 637-646: the length of the extent.  It is cut to bytes; a build
\* without __LP64__ (lp64 false) then sets it to 0x40000000 in the direct I/O
\* contexts when bytes is above that.
DIO_MAX == 1073741824
get_block_b_size(b_size, bytes, ctx, lp64) ==
    LET b == Min(b_size, bytes) IN
    IF ~lp64 /\ ctx \in {GET_BLOCK_DIRECT_IO_W, GET_BLOCK_DIRECT_IO_R}
       /\ bytes > DIO_MAX
    THEN DIO_MAX
    ELSE b

\* get_block_map without the zeroing of the block that crosses i_valid.
get_block_map_nozero(st, vbo, bh1, create, ctx, f, lcn, bytes0, lp64) ==
    LET off == vbo % ClusterSize
        lbo == lcn * ClusterSize + off
        bh == [bh1 EXCEPT !.mapped = TRUE, !.b_blocknr = lbo \div BlockSize]
        valid == st.i_valid
        Fin(s, b, bytes) ==
            GbRet(s, [b EXCEPT !.b_size = get_block_b_size(@, bytes, ctx, lp64)],
                  "0", <<>>)
    IN
    IF ctx = GET_BLOCK_DIRECT_IO_W
    THEN Fin(st, IF vbo >= valid THEN [bh EXCEPT !.new = TRUE] ELSE bh, bytes0)
    ELSE IF create
    THEN IF vbo >= valid
         THEN LET bytes == Min(bytes0, bh.b_size) IN
              Fin([st EXCEPT !.i_valid = vbo + bytes],
                  [bh EXCEPT !.new = TRUE], bytes)
         ELSE Fin(st, bh, bytes0)
    ELSE IF valid >= st.i_size
    THEN Fin(st, bh, bytes0)
    ELSE IF vbo >= valid
    THEN Fin(st, [bh EXCEPT !.mapped = FALSE], bytes0)
    ELSE IF vbo + bytes0 <= valid
    THEN Fin(st, bh, bytes0)
    ELSE IF vbo + BlockSize <= valid
    THEN Fin(st, bh, BlockSize)
    ELSE \* read across valid size: vbo < valid && valid < vbo + block_size
         IF f = "ll_rw_block"
         THEN GbRet(st, [bh EXCEPT !.b_size = BlockSize], "EIO", <<>>)
         ELSE Fin(st, bh, BlockSize)

\* Lines 586-648: the buffer is mapped to lcn; what is done then depends on
\* the context and on ni->i_valid.
get_block_map(st, vbo, bh1, create, ctx, f, lcn, bytes0, lp64) ==
    LET off == vbo % ClusterSize
        lbo == lcn * ClusterSize + off
        bh == [bh1 EXCEPT !.mapped = TRUE, !.b_blocknr = lbo \div BlockSize]
        valid == st.i_valid
        Fin(s, b, bytes) ==
            GbRet(s, [b EXCEPT !.b_size = get_block_b_size(@, bytes, ctx, lp64)],
                  "0", <<>>)
    IN
    IF ctx = GET_BLOCK_DIRECT_IO_W
    THEN Fin(st, IF vbo >= valid THEN [bh EXCEPT !.new = TRUE] ELSE bh, bytes0)
    ELSE IF create
    THEN IF vbo >= valid
         THEN LET bytes == Min(bytes0, bh.b_size) IN
              Fin([st EXCEPT !.i_valid = vbo + bytes],
                  [bh EXCEPT !.new = TRUE], bytes)
         ELSE Fin(st, bh, bytes0)
    ELSE IF valid >= st.i_size
    THEN Fin(st, bh, bytes0)
    ELSE IF vbo >= valid
    THEN Fin(st, [bh EXCEPT !.mapped = FALSE], bytes0)
    ELSE IF vbo + bytes0 <= valid
    THEN Fin(st, bh, bytes0)
    ELSE IF vbo + BlockSize <= valid
    THEN Fin(st, bh, BlockSize)
    ELSE \* read across valid size: vbo < valid && valid < vbo + block_size
         IF f = "ll_rw_block"
         THEN GbRet(st, [bh EXCEPT !.b_size = BlockSize], "EIO", <<>>)
         ELSE Fin(st, [bh EXCEPT !.b_size = BlockSize, !.uptodate = TRUE,
                                 !.zero = <<valid, vbo + BlockSize>>],
                  BlockSize)

\* get_block_vbo that asks for allocation whatever create is.
get_block_vbo_fill(st, vbo, b_size, create, ctx, f, lp64) ==
    LET bh == Bh0(b_size) IN
    IF ~create /\ vbo >= st.i_valid THEN GbRet(st, bh, "0", <<>>)
    ELSE IF vbo >= st.i_size THEN GbRet(st, bh, "0", <<>>)
    ELSE IF st.resident
    THEN LET tr == <<"ni_lock", "attr_data_read_resident", "ni_unlock">> IN
         IF f = "attr_data_read_resident"
         THEN GbRet(st, [bh EXCEPT !.b_size = BlockSize], "EIO", tr)
         ELSE GbRet(st, [bh EXCEPT !.uptodate = TRUE, !.b_size = BlockSize],
                    "0", tr)
    ELSE LET vcn == vbo \div ClusterSize
             off == vbo % ClusterSize
             g == attr_data_get_block(st, vcn, TRUE, f)
             st1 == [st EXCEPT !.frun = g.frun]
             tr == <<"attr_data_get_block">>
                   \o (IF g.new THEN <<"allocate", "ntfs_sparse_cluster">>
                       ELSE <<>>)
         IN
         IF g.err # "0" THEN GbRet(st1, bh, g.err, tr)
         ELSE IF g.len = 0 THEN GbRet(st1, bh, "0", tr)
         ELSE LET bytes == g.len * ClusterSize - off IN
              IF g.lcn = SPARSE_LCN /\ ~create
              THEN GbRet(st1, [bh EXCEPT !.b_size = Min(@, bytes)], "0", tr)
              ELSE GbTr(get_block_map(st1, vbo,
                                      IF g.new THEN [bh EXCEPT !.new = TRUE]
                                      ELSE bh,
                                      create, ctx, f, g.lcn, bytes, lp64), tr)

\* get_block_vbo without the test of the offset against i_size.
get_block_vbo_noeof(st, vbo, b_size, create, ctx, f, lp64) ==
    LET bh == Bh0(b_size) IN
    IF ~create /\ vbo >= st.i_valid THEN GbRet(st, bh, "0", <<>>)
    ELSE IF st.resident
    THEN LET tr == <<"ni_lock", "attr_data_read_resident", "ni_unlock">> IN
         IF f = "attr_data_read_resident"
         THEN GbRet(st, [bh EXCEPT !.b_size = BlockSize], "EIO", tr)
         ELSE GbRet(st, [bh EXCEPT !.uptodate = TRUE, !.b_size = BlockSize],
                    "0", tr)
    ELSE LET vcn == vbo \div ClusterSize
             off == vbo % ClusterSize
             g == attr_data_get_block(st, vcn, create, f)
             st1 == [st EXCEPT !.frun = g.frun]
             tr == <<"attr_data_get_block">>
                   \o (IF g.new THEN <<"allocate", "ntfs_sparse_cluster">>
                       ELSE <<>>)
         IN
         IF g.err # "0" THEN GbRet(st1, bh, g.err, tr)
         ELSE IF g.len = 0 THEN GbRet(st1, bh, "0", tr)
         ELSE LET bytes == g.len * ClusterSize - off IN
              IF g.lcn = SPARSE_LCN /\ ~create
              THEN GbRet(st1, [bh EXCEPT !.b_size = Min(@, bytes)], "0", tr)
              ELSE GbTr(get_block_map(st1, vbo,
                                      IF g.new THEN [bh EXCEPT !.new = TRUE]
                                      ELSE bh,
                                      create, ctx, f, g.lcn, bytes, lp64), tr)

\* get_block_vbo that does not report the clusters just allocated as new.
get_block_vbo_nonew(st, vbo, b_size, create, ctx, f, lp64) ==
    LET bh == Bh0(b_size) IN
    IF ~create /\ vbo >= st.i_valid THEN GbRet(st, bh, "0", <<>>)
    ELSE IF vbo >= st.i_size THEN GbRet(st, bh, "0", <<>>)
    ELSE IF st.resident
    THEN LET tr == <<"ni_lock", "attr_data_read_resident", "ni_unlock">> IN
         IF f = "attr_data_read_resident"
         THEN GbRet(st, [bh EXCEPT !.b_size = BlockSize], "EIO", tr)
         ELSE GbRet(st, [bh EXCEPT !.uptodate = TRUE, !.b_size = BlockSize],
                    "0", tr)
    ELSE LET vcn == vbo \div ClusterSize
             off == vbo % ClusterSize
             g == attr_data_get_block(st, vcn, create, f)
             st1 == [st EXCEPT !.frun = g.frun]
             tr == <<"attr_data_get_block">>
                   \o (IF g.new THEN <<"allocate", "ntfs_sparse_cluster">>
                       ELSE <<>>)
         IN
         IF g.err # "0" THEN GbRet(st1, bh, g.err, tr)
         ELSE IF g.len = 0 THEN GbRet(st1, bh, "0", tr)
         ELSE LET bytes == g.len * ClusterSize - off IN
              IF g.lcn = SPARSE_LCN /\ ~create
              THEN GbRet(st1, [bh EXCEPT !.b_size = Min(@, bytes)], "0", tr)
              ELSE GbTr(get_block_map(st1, vbo,
                                      bh,
                                      create, ctx, f, g.lcn, bytes, lp64), tr)

\* get_block_vbo that does not cut the span of a hole to the sparse run.
get_block_vbo_noclamp(st, vbo, b_size, create, ctx, f, lp64) ==
    LET bh == Bh0(b_size) IN
    IF ~create /\ vbo >= st.i_valid THEN GbRet(st, bh, "0", <<>>)
    ELSE IF vbo >= st.i_size THEN GbRet(st, bh, "0", <<>>)
    ELSE IF st.resident
    THEN LET tr == <<"ni_lock", "attr_data_read_resident", "ni_unlock">> IN
         IF f = "attr_data_read_resident"
         THEN GbRet(st, [bh EXCEPT !.b_size = BlockSize], "EIO", tr)
         ELSE GbRet(st, [bh EXCEPT !.uptodate = TRUE, !.b_size = BlockSize],
                    "0", tr)
    ELSE LET vcn == vbo \div ClusterSize
             off == vbo % ClusterSize
             g == attr_data_get_block(st, vcn, create, f)
             st1 == [st EXCEPT !.frun = g.frun]
             tr == <<"attr_data_get_block">>
                   \o (IF g.new THEN <<"allocate", "ntfs_sparse_cluster">>
                       ELSE <<>>)
         IN
         IF g.err # "0" THEN GbRet(st1, bh, g.err, tr)
         ELSE IF g.len = 0 THEN GbRet(st1, bh, "0", tr)
         ELSE LET bytes == g.len * ClusterSize - off IN
              IF g.lcn = SPARSE_LCN /\ ~create
              THEN GbRet(st1, bh, "0", tr)
              ELSE GbTr(get_block_map(st1, vbo,
                                      IF g.new THEN [bh EXCEPT !.new = TRUE]
                                      ELSE bh,
                                      create, ctx, f, g.lcn, bytes, lp64), tr)

\* get_block_vbo that marks the buffer uptodate whatever the resident read
\* returned.
get_block_vbo_uptodate(st, vbo, b_size, create, ctx, f, lp64) ==
    LET bh == Bh0(b_size) IN
    IF ~create /\ vbo >= st.i_valid THEN GbRet(st, bh, "0", <<>>)
    ELSE IF vbo >= st.i_size THEN GbRet(st, bh, "0", <<>>)
    ELSE IF st.resident
    THEN LET tr == <<"ni_lock", "attr_data_read_resident", "ni_unlock">> IN
         IF f = "attr_data_read_resident"
         THEN GbRet(st, [bh EXCEPT !.uptodate = TRUE, !.b_size = BlockSize],
                    "EIO", tr)
         ELSE GbRet(st, [bh EXCEPT !.uptodate = TRUE, !.b_size = BlockSize],
                    "0", tr)
    ELSE LET vcn == vbo \div ClusterSize
             off == vbo % ClusterSize
             g == attr_data_get_block(st, vcn, create, f)
             st1 == [st EXCEPT !.frun = g.frun]
             tr == <<"attr_data_get_block">>
                   \o (IF g.new THEN <<"allocate", "ntfs_sparse_cluster">>
                       ELSE <<>>)
         IN
         IF g.err # "0" THEN GbRet(st1, bh, g.err, tr)
         ELSE IF g.len = 0 THEN GbRet(st1, bh, "0", tr)
         ELSE LET bytes == g.len * ClusterSize - off IN
              IF g.lcn = SPARSE_LCN /\ ~create
              THEN GbRet(st1, [bh EXCEPT !.b_size = Min(@, bytes)], "0", tr)
              ELSE GbTr(get_block_map(st1, vbo,
                                      IF g.new THEN [bh EXCEPT !.new = TRUE]
                                      ELSE bh,
                                      create, ctx, f, g.lcn, bytes, lp64), tr)

get_block_vbo(st, vbo, b_size, create, ctx, f, lp64) ==
    LET bh == Bh0(b_size) IN
    IF ~create /\ vbo >= st.i_valid THEN GbRet(st, bh, "0", <<>>)
    ELSE IF vbo >= st.i_size THEN GbRet(st, bh, "0", <<>>)
    ELSE IF st.resident
    THEN LET tr == <<"ni_lock", "attr_data_read_resident", "ni_unlock">> IN
         IF f = "attr_data_read_resident"
         THEN GbRet(st, [bh EXCEPT !.b_size = BlockSize], "EIO", tr)
         ELSE GbRet(st, [bh EXCEPT !.uptodate = TRUE, !.b_size = BlockSize],
                    "0", tr)
    ELSE LET vcn == vbo \div ClusterSize
             off == vbo % ClusterSize
             g == attr_data_get_block(st, vcn, create, f)
             st1 == [st EXCEPT !.frun = g.frun]
             tr == <<"attr_data_get_block">>
                   \o (IF g.new THEN <<"allocate", "ntfs_sparse_cluster">>
                       ELSE <<>>)
         IN
         IF g.err # "0" THEN GbRet(st1, bh, g.err, tr)
         ELSE IF g.len = 0 THEN GbRet(st1, bh, "0", tr)
         ELSE LET bytes == g.len * ClusterSize - off IN
              IF g.lcn = SPARSE_LCN /\ ~create
              THEN GbRet(st1, [bh EXCEPT !.b_size = Min(@, bytes)], "0", tr)
              ELSE GbTr(get_block_map(st1, vbo,
                                      IF g.new THEN [bh EXCEPT !.new = TRUE]
                                      ELSE bh,
                                      create, ctx, f, g.lcn, bytes, lp64), tr)

\* ---------------------------------------------------------- ntfs_direct_IO
\* blockdev_direct_IO asks ntfs_get_block_direct_IO_W / _R for one extent
\* after the other, with create = 0 inside i_size.  A write stops at the
\* first block that is not mapped (the caller falls back to the buffered
\* path); DioReach is the position a write from p can reach.
RoundUp(n, a) == ((n + a - 1) \div a) * a

RECURSIVE DioReach(_, _, _, _)
DioReach(st, p, end, lp64) ==
    IF p >= end THEN end
    ELSE LET blk == (p \div BlockSize) * BlockSize
             r == get_block_vbo(st, blk, RoundUp(end - blk, BlockSize), FALSE,
                                GET_BLOCK_DIRECT_IO_W, "none", lp64)
         IN IF r.err = "0" /\ r.bh.mapped
            THEN DioReach(st, Min(end, blk + r.bh.b_size), end, lp64)
            ELSE p

\* dret is what blockdev_direct_IO returned: the bytes transferred, or a
\* negative errno.  fix is the result of get_user_pages_unlocked.
\* ntfs_direct_IO that sets valid_size to the end of every direct write.
direct_IO_setvalid(st, vbo, count, wr, dret, fix) ==
    LET end == vbo + count
        valid == st.i_valid
    IN
    IF st.resident
    THEN [st |-> st, ret |-> 0, tr |-> <<>>]
    ELSE IF wr
    THEN IF dret <= 0
         THEN [st |-> st, ret |-> dret, tr |-> <<"blockdev_direct_IO">>]
         ELSE [st |-> [st EXCEPT !.i_valid = vbo + dret], ret |-> dret,
               tr |-> <<"blockdev_direct_IO", "mark_inode_dirty">>]
    ELSE IF vbo < valid /\ valid < end
    THEN [st |-> st, ret |-> dret,
          tr |-> <<"blockdev_direct_IO",
                   IF fix THEN "zero_user_segment" ELSE "ntfs_inode_warn">>]
    ELSE [st |-> st, ret |-> dret, tr |-> <<"blockdev_direct_IO">>]

direct_IO(st, vbo, count, wr, dret, fix) ==
    LET end == vbo + count
        valid == st.i_valid
    IN
    IF st.resident
    THEN [st |-> st, ret |-> 0, tr |-> <<>>]
    ELSE IF wr
    THEN IF dret <= 0
         THEN [st |-> st, ret |-> dret, tr |-> <<"blockdev_direct_IO">>]
         ELSE IF vbo + dret > valid
         THEN [st |-> [st EXCEPT !.i_valid = vbo + dret], ret |-> dret,
               tr |-> <<"blockdev_direct_IO", "mark_inode_dirty">>]
         ELSE [st |-> st, ret |-> dret, tr |-> <<"blockdev_direct_IO">>]
    ELSE IF vbo < valid /\ valid < end
    THEN [st |-> st, ret |-> dret,
          tr |-> <<"blockdev_direct_IO",
                   IF fix THEN "zero_user_segment" ELSE "ntfs_inode_warn">>]
    ELSE [st |-> st, ret |-> dret, tr |-> <<"blockdev_direct_IO">>]

\* ----------------------------------------------------------- ntfs_set_size
\* Offset of the data attribute in the record, and whether a resident data
\* attribute of n bytes fits there.
DataAttrOff == MFTRECORD_ATTR_OFF + (SIZEOF_RESIDENT + SIZEOF_STD_INFO5)
               + QuadAlign(SIZEOF_RESIDENT + key_size(1))
FitsResident(n) == QuadAlign(SIZEOF_RESIDENT + n) + DataAttrOff + 8 <= RecordSize

\* attr_set_size(ni, ATTR_DATA, NULL, 0, &ni->file.run, new_size,
\* &ni->i_valid, true, NULL): data_size becomes new_size, the run list is
\* extended (by holes if the file is sparse) or truncated to the clusters
\* of new_size, and valid_size is clamped down to new_size.
attr_set_size(st, new_size, f) ==
    IF f = "attr_set_size" THEN [st |-> st, err |-> "ENOSPC"]
    ELSE LET n == bytes_to_cluster(new_size)
             res == st.resident /\ FitsResident(new_size)
             r == IF res THEN <<>>
                  ELSE [k \in 1..n |->
                          IF k <= Len(st.frun) THEN st.frun[k]
                          ELSE IF st.fsparse THEN SPARSE_LCN
                          ELSE LcnOf(k - 1)]
         IN [st |-> [st EXCEPT !.i_size = new_size,
                               !.i_valid = Min(@, new_size),
                               !.frun = r,
                               !.resident = res],
             err |-> "0"]

\* ntfs_set_size taking the run lock first and the lock of the file inside.
set_size_inverted(st, new_size, f) ==
    IF new_size > MaxBytes
    THEN [st |-> st, err |-> "EFBIG", tr |-> <<>>]
    ELSE LET a == attr_set_size(st, new_size, f) IN
         [st |-> a.st, err |-> a.err,
          tr |-> <<"down_write", "ni_lock", "attr_set_size", "ni_unlock",
                   "up_write", "mark_inode_dirty">>]

set_size_nolock(st, new_size, f) ==
    IF new_size > MaxBytes
    THEN [st |-> st, err |-> "EFBIG", tr |-> <<>>]
    ELSE LET a == attr_set_size(st, new_size, f) IN
         [st |-> a.st, err |-> a.err,
          tr |-> <<"ni_lock", "attr_set_size", "ni_unlock",
                   "mark_inode_dirty">>]

set_size(st, new_size, f) ==
    IF new_size > MaxBytes
    THEN [st |-> st, err |-> "EFBIG", tr |-> <<>>]
    ELSE LET a == attr_set_size(st, new_size, f) IN
         [st |-> a.st, err |-> a.err,
          tr |-> <<"ni_lock", "down_write", "attr_set_size", "up_write",
                   "ni_unlock", "mark_inode_dirty">>]

\* -------------------------------------------------------------- ntfs_iget5
\* c is the call: the record reference (ino, seq), the name the caller
\* looks for (NoName for NULL), whether the log is being replayed
\* (NTFS_FLAGS_LOG_REPLAYING) and the call that fails.
NoName == ""

read_mft_out(s, err) == [Ev(s, "iget_failed") EXCEPT !.err = err]

\* read_mft without the test of the sequence number.
read_mft_noseq(s, c) ==
    LET rec == s.mrec[c.ino]
        named == {k \in 1..Len(rec.fnames) :
                     rec.fnames[k].type # FILE_NAME_DOS}
        is_match == \E k \in named : rec.fnames[k].name = c.name
    IN
    IF c.f = "mi_init" THEN read_mft_out(s, "ENOMEM")
    ELSE IF c.f = "mi_read" THEN read_mft_out(Ev(s, "mi_read"), "EIO")
    ELSE LET s1 == Ev(s, "mi_read") IN
         IF ~c.replaying /\ ~rec.inuse
         THEN read_mft_out(Ev(s1, "ntfs_err"), "EINVAL")
         ELSE IF c.f = "ni_enum_attr_ex" THEN read_mft_out(s1, "EINVAL")
         ELSE IF c.name # NoName /\ ~is_match THEN read_mft_out(s1, "ENOENT")
         ELSE IF named = {} THEN read_mft_out(s1, "EINVAL")
         ELSE Ev([s1 EXCEPT !.i_nlink[c.ino] =
                               IF rec.is_dir THEN 1 ELSE Cardinality(named)],
                 "unlock_new_inode")

\* ntfs_read_mft on the new inode of record c.ino.  names counts the
\* FILE_NAME attributes that are not DOS names.
read_mft(s, c) ==
    LET rec == s.mrec[c.ino]
        named == {k \in 1..Len(rec.fnames) :
                     rec.fnames[k].type # FILE_NAME_DOS}
        is_match == \E k \in named : rec.fnames[k].name = c.name
    IN
    IF c.f = "mi_init" THEN read_mft_out(s, "ENOMEM")
    ELSE IF c.f = "mi_read" THEN read_mft_out(Ev(s, "mi_read"), "EIO")
    ELSE LET s1 == Ev(s, "mi_read") IN
         IF ~c.replaying /\ c.seq # rec.seq
         THEN read_mft_out(Ev(s1, "ntfs_err"), "EINVAL")
         ELSE IF ~c.replaying /\ ~rec.inuse
         THEN read_mft_out(Ev(s1, "ntfs_err"), "EINVAL")
         ELSE IF c.f = "ni_enum_attr_ex" THEN read_mft_out(s1, "EINVAL")
         ELSE IF c.name # NoName /\ ~is_match THEN read_mft_out(s1, "ENOENT")
         ELSE IF named = {} THEN read_mft_out(s1, "EINVAL")
         ELSE Ev([s1 EXCEPT !.i_nlink[c.ino] =
                               IF rec.is_dir THEN 1 ELSE Cardinality(named)],
                 "unlock_new_inode")

\* cached: iget5_locked found the inode in the inode cache (I_NEW clear).
iget5(s, c, cached) ==
    IF c.f = "iget5_locked" THEN [s EXCEPT !.err = "ENOMEM"]
    ELSE IF ~cached THEN read_mft(s, c)
    ELSE IF c.seq # s.mrec[c.ino].seq THEN make_bad_inode(s, c.ino)
    ELSE s

\* ----------------------------------------------------- ntfs_readlink_hlp
\* ntfs_utf16_to_nls converts the uni->len units of a name that fits the
\* buffer, as the names of at most 255 units fit the page of ntfs_get_link.
ntfs_utf16_to_nls(name, f) ==
    IF f = "ntfs_utf16_to_nls"
    THEN [err |-> "ENAMETOOLONG", n |-> 0, out |-> <<>>]
    ELSE [err |-> "0", n |-> Len(name), out |-> name]

\* readlink_name that takes the declared length for good.
readlink_name_nocheck(isize, hdr, rp, first, nlen0, f) ==
    LET nlen == nlen0 \div 2
        k0 == first \div 2
        At(k) == IF k0 + k <= Len(rp.path) THEN rp.path[k0 + k] ELSE 0
    IN
    IF nlen = 0
    THEN [err |-> "EINVAL", n |-> 0, out |-> <<>>, oob |-> FALSE]
    ELSE LET nlen1 == IF At(nlen) = 0 THEN nlen - 1 ELSE nlen
             len == nlen1 % 256
             r == ntfs_utf16_to_nls([k \in 1..len |-> At(k)], f)
         IN [err |-> r.err, n |-> r.n,
             out |-> [k \in 1..r.n |-> IF r.out[k] = BACKSLASH THEN SLASH
                                       ELSE r.out[k]],
             oob |-> \E k \in {nlen} \cup (1..len) :
                         hdr + 2 * (k0 + k) > isize]

\* Lines 1990-2013: the name of nlen bytes that starts at byte first of
\* rp.path.  oob tells that a unit behind the payload of isize bytes was
\* read.  uni->len is the byte in front of the name (line 186).
readlink_name(isize, hdr, rp, first, nlen0, f) ==
    LET nlen == nlen0 \div 2
        k0 == first \div 2
        At(k) == IF k0 + k <= Len(rp.path) THEN rp.path[k0 + k] ELSE 0
    IN
    IF nlen = 0 \/ hdr + first + 2 * nlen > isize
    THEN [err |-> "EINVAL", n |-> 0, out |-> <<>>, oob |-> FALSE]
    ELSE LET nlen1 == IF At(nlen) = 0 THEN nlen - 1 ELSE nlen
             len == nlen1 % 256
             r == ntfs_utf16_to_nls([k \in 1..len |-> At(k)], f)
         IN [err |-> r.err, n |-> r.n,
             out |-> [k \in 1..r.n |-> IF r.out[k] = BACKSLASH THEN SLASH
                                       ELSE r.out[k]],
             oob |-> \E k \in {nlen} \cup (1..len) :
                         hdr + 2 * (k0 + k) > isize]

\* readlink_hlp without the cases of lines 1951-1971.
readlink_hlp_nocloud(isize, attr, rp, buflen, max_size, f) ==
    LET fail(e) == [err |-> e, n |-> 0, out |-> <<>>, oob |-> FALSE] IN
    IF isize > max_size \/ isize <= 4 THEN fail("EINVAL")
    ELSE IF attr = "none" THEN fail("EINVAL")
    ELSE IF attr = "resident" /\ f = "resident_data_ex" THEN fail("EINVAL")
    ELSE IF attr = "nonresident" /\ f = "ntfs_malloc" THEN fail("ENOMEM")
    ELSE IF attr = "nonresident" /\ f = "ntfs_read_run_nb" THEN fail("EIO")
    ELSE IF rp.tag = IO_REPARSE_TAG_MOUNT_POINT
    THEN IF isize <= 16 THEN fail("EINVAL")
         ELSE readlink_name(isize, 16, rp, rp.off, rp.len, f)
    ELSE IF rp.tag = IO_REPARSE_TAG_SYMLINK
    THEN IF isize <= 20 THEN fail("EINVAL")
         ELSE readlink_name(isize, 20, rp, rp.off, rp.len, f)
    ELSE IF rp.tag.ms THEN fail("EINVAL")
    ELSE IF ~rp.tag.ns \/ isize <= SIZEOF_REPARSE_POINT THEN fail("EINVAL")
    ELSE readlink_name(isize, SIZEOF_REPARSE_POINT, rp, 0,
                       (rp.data_len - SIZEOF_REPARSE_POINT) % 65536, f)

\* ntfs_readlink_hlp: attr is "none", "resident" or "nonresident"; rp is
\* the payload of isize bytes, rp.path its units from the PathBuffer of
\* its tag on (from the end of REPARSE_POINT for a tag of a vendor).
readlink_hlp(isize, attr, rp, buflen, max_size, f) ==
    LET fail(e) == [err |-> e, n |-> 0, out |-> <<>>, oob |-> FALSE] IN
    IF isize > max_size \/ isize <= 4 THEN fail("EINVAL")
    ELSE IF attr = "none" THEN fail("EINVAL")
    ELSE IF attr = "resident" /\ f = "resident_data_ex" THEN fail("EINVAL")
    ELSE IF attr = "nonresident" /\ f = "ntfs_malloc" THEN fail("ENOMEM")
    ELSE IF attr = "nonresident" /\ f = "ntfs_read_run_nb" THEN fail("EIO")
    ELSE IF rp.tag = IO_REPARSE_TAG_MOUNT_POINT
    THEN IF isize <= 16 THEN fail("EINVAL")
         ELSE readlink_name(isize, 16, rp, rp.off, rp.len, f)
    ELSE IF rp.tag = IO_REPARSE_TAG_SYMLINK
    THEN IF isize <= 20 THEN fail("EINVAL")
         ELSE readlink_name(isize, 20, rp, rp.off, rp.len, f)
    ELSE IF rp.tag \in CloudTags
    THEN [err |-> "0", n |-> Min(Len(OneDrive), buflen),
          out |-> SubSeq(OneDrive, 1, Min(Len(OneDrive), buflen)),
          oob |-> FALSE]
    ELSE IF rp.tag.ms THEN fail("EINVAL")
    ELSE IF ~rp.tag.ns \/ isize <= SIZEOF_REPARSE_POINT THEN fail("EINVAL")
    ELSE readlink_name(isize, SIZEOF_REPARSE_POINT, rp, 0,
                       (rp.data_len - SIZEOF_REPARSE_POINT) % 65536, f)

\* ------------------------------------------------------------------ state
Commit(s) ==
    /\ mrec' = s.mrec
    /\ mft_used' = s.mft_used
    /\ index' = s.index
    /\ run' = s.run
    /\ clst_used' = s.clst_used
    /\ reparse' = s.reparse
    /\ i_nlink' = s.i_nlink
    /\ i_bad' = s.i_bad
    /\ dcache' = s.dcache
    /\ dirty' = s.dirty
    /\ ni_locked' = s.ni_locked
    /\ posix_acl' = posix_acl

\* Directories the VFS can pass as the parent: the root and every
\* directory with an instantiated dentry that was not removed.
LiveDirs == {Root} \cup {e.ino : e \in {x \in dcache : mrec[x.ino].is_dir
                                                     /\ i_nlink[x.ino] > 0}}

\* The record ntfs_look_free_mft finds: the first free one, 0 if there is
\* none.
FreeRecs == Inos \ mft_used
LookFree == IF FreeRecs = {} THEN 0
            ELSE CHOOSE i \in FreeRecs : \A j \in FreeRecs : i <= j

Modes == {"reg", "dir", "lnk", "spec"}
\* Lengths of symname: 173 is the longest target whose payload is resident
\* in a record of RecordSize bytes, PATH_MAX - 1 the longest the VFS passes;
\* 3 stands for the calls without symname.
SymLens == {3, 173, 174, PATH_MAX - 1}
CreateFaults == {"none", "indx_get_root", "__getname", "ntfs_look_free_mft",
                 "ntfs_new_inode", "fill_name_de", "indx_init",
                 "ntfs_create_reparse_buffer", "attr_allocate_clusters",
                 "run_pack", "run_pack_vcn", "ntfs_insert_reparse",
                 "indx_insert_entry", "ntfs_init_acl", "ntfs_sb_write_run"}

\* The collaborators a create of the given kind calls.
CreateCalls(mode, size, acl) ==
    LET nsize == ntfs_reparse_bytes(size)
        fits == mode # "lnk" \/ nsize <= MAXIMUM_REPARSE_DATA_BUFFER_SIZE
    IN
    IF mode = "spec" THEN {"none"}
    ELSE {"none", "indx_get_root", "__getname", "ntfs_look_free_mft",
          "ntfs_new_inode", "fill_name_de"}
         \cup (IF fits THEN {"indx_insert_entry"} ELSE {})
         \cup (IF mode = "dir" THEN {"indx_init"} ELSE {})
         \cup (IF mode # "lnk" /\ acl THEN {"ntfs_init_acl"} ELSE {})
         \cup (IF mode = "lnk" THEN {"ntfs_create_reparse_buffer"} ELSE {})
         \cup (IF mode = "lnk" /\ fits THEN {"ntfs_insert_reparse"} ELSE {})
         \cup (IF mode = "lnk" /\ fits
                  /\ ReparseNonResident(nsize, ReparseAttrOff(1))
               THEN {"attr_allocate_clusters", "run_pack", "run_pack_vcn",
                     "ntfs_sb_write_run"}
               ELSE {})

\* Volume contents at mount.  A file made by another implementation, with
\* a long name "a" and its DOS alias "a~1" in the root, both counted in
\* hard_links; and an empty directory "b" of the root.
PairRec == [inuse |-> TRUE, hard_links |-> 2, is_dir |-> FALSE, seq |-> 2,
            fnames |-> <<Fname(Root, "a", FILE_NAME_UNICODE),
                         Fname(Root, "a~1", FILE_NAME_DOS)>>]
PairEntries == {Ent(Root, "a", PairIno), Ent(Root, "a~1", PairIno)}

DirRec == [inuse |-> TRUE, hard_links |-> 1, is_dir |-> TRUE, seq |-> 1,
           fnames |-> <<Fname(Root, "b", FILE_NAME_POSIX)>>]
DirEntries == {Ent(Root, "b", DirIno)}

RootRec == [inuse |-> TRUE, hard_links |-> 1, is_dir |-> TRUE, fnames |-> <<>>,
            seq |-> Root]

Idle == [op |-> "idle", err |-> "0", tr |-> <<>>, c |-> [f |-> "none"]]

\* dents: the entries whose dentry is instantiated at the start.
NsInitOf(dents) ==
    /\ \E with_pair \in BOOLEAN, with_dir \in BOOLEAN :
        LET ents == (IF with_pair THEN PairEntries ELSE {})
                    \cup (IF with_dir THEN DirEntries ELSE {})
        IN
        /\ mrec = [i \in Recs |->
                     IF i = Root THEN RootRec
                     ELSE IF with_pair /\ i = PairIno THEN PairRec
                     ELSE IF with_dir /\ i = DirIno THEN DirRec
                     ELSE NoRec]
        /\ mft_used = {e.ino : e \in ents}
        /\ index = ents
        /\ dcache = ents \cap dents
        /\ i_nlink = [i \in Recs |->
                        IF i = Root \/ i \in {e.ino : e \in ents}
                        THEN 1 ELSE 0]
    /\ run = [i \in Recs |-> {}]
    /\ clst_used = {}
    /\ reparse = {}
    /\ i_bad = {}
    /\ dirty = FALSE
    /\ ni_locked = {}
    /\ posix_acl \in BOOLEAN
    /\ nops = 0
    /\ ret = Idle
    /\ i_size = 0 /\ i_valid = 0 /\ frun = <<>>
    /\ resident = FALSE /\ fsparse = FALSE

NsInit == NsInitOf(PairEntries \cup DirEntries)

\* The VFS calls a handler when no call is in progress and takes the
\* result before the next call.
ntfs_create_inode ==
    /\ ret.op = "idle"
    /\ nops < MaxOps
    /\ nops' = nops + 1
    /\ \E d \in LiveDirs, n \in Names, mode \in Modes, size \in SymLens,
          f \in CreateFaults :
        LET c == [dir |-> d, name |-> n, mode |-> mode, size |-> size,
                  ino |-> LookFree, f |-> f, acl |-> posix_acl]
            s == create_inode(Vol, c)
        IN /\ mode # "lnk" <=> size = 3
           /\ f \in CreateCalls(mode, size, posix_acl)
           /\ ~\E e \in dcache : e.dir = d /\ e.name = n
           /\ Commit(s)
           /\ ret' = [op |-> "create", err |-> s.err, tr |-> s.tr, c |-> c]

LinkFaults == {"none", "indx_get_root", "__getname", "fill_name_de",
               "ni_insert_resident", "indx_insert_entry"}

\* Inodes the VFS can link: files with a dentry and a link left.
LiveFiles == {e.ino : e \in {x \in dcache : ~mrec[x.ino].is_dir
                                            /\ i_nlink[x.ino] > 0}}

\* ntfs_link (namei.c) counts the link before the call, drops it again
\* if the call fails, and instantiates the dentry if it succeeds.
ntfs_link_inode ==
    /\ ret.op = "idle"
    /\ nops < MaxOps
    /\ nops' = nops + 1
    /\ \E ino \in LiveFiles, d \in LiveDirs, n \in Names, f \in LinkFaults :
        LET c == [dir |-> d, name |-> n, ino |-> ino, f |-> f]
            s == link_inode(Vol, c)
            s1 == IF s.err = "0"
                  THEN [s EXCEPT !.i_nlink[ino] = @ + 1,
                                 !.dcache = @ \cup {Ent(d, n, ino)}]
                  ELSE s
        IN /\ ~\E e \in dcache : e.dir = d /\ e.name = n
           /\ Len(mrec[ino].fnames) < MaxNames
           /\ Commit(s1)
           /\ ret' = [op |-> "link", err |-> s.err, tr |-> s.tr, c |-> c,
                      pre |-> [rec |-> mrec[ino], index |-> index]]

UnlinkFaults == {"none", "indx_get_root", "__getname", "ntfs_nls_to_utf16",
                 "indx_delete_entry", "indx_delete_entry_2"}
DeleteErrs == {"EINVAL", "ENOSPC", "EROFS"}

\* The VFS removes the dentry after a successful unlink or rmdir.
ntfs_unlink_inode ==
    /\ ret.op = "idle"
    /\ nops < MaxOps
    /\ nops' = nops + 1
    /\ \E de \in dcache, f \in UnlinkFaults, e \in DeleteErrs :
        LET c == [dir |-> de.dir, name |-> de.name, ino |-> de.ino,
                  f |-> f, e |-> e]
            s == unlink_inode(Vol, c)
            s1 == IF s.err = "0" THEN [s EXCEPT !.dcache = @ \ {de}] ELSE s
        IN /\ de.dir \in LiveDirs
           /\ (f \notin {"indx_delete_entry", "indx_delete_entry_2"})
                  => e = "EINVAL"
           /\ Commit(s1)
           /\ ret' = [op |-> "unlink", err |-> s.err, tr |-> s.tr, c |-> c,
                      pre |-> [rec |-> mrec[de.ino], index |-> index,
                               i_nlink |-> i_nlink[de.ino], dirty |-> dirty]]

Return ==
    /\ ret.op # "idle"
    /\ ret' = Idle
    /\ UNCHANGED <<nsvars, iovars, nops>>

\* A dentry pins its inode in the inode cache, and so does the mount for
\* the root; an inode without dentry may be cached or not, if its record
\* was formatted at all.
RefSeqs == {1, 2, Root}
IgetFaults == {"none", "iget5_locked", "mi_init", "mi_read",
               "ni_enum_attr_ex"}
Pinned(ino) == ino = Root \/ \E e \in dcache : e.ino = ino

ntfs_iget5 ==
    /\ ret.op = "idle"
    /\ nops < MaxOps
    /\ nops' = nops + 1
    /\ \E ino \in Recs, seq \in RefSeqs, name \in {NoName, "a"},
          replaying \in BOOLEAN, f \in IgetFaults, cached \in BOOLEAN :
        LET c == [ino |-> ino, seq |-> seq, name |-> name,
                  replaying |-> replaying, f |-> f]
            s == iget5(Vol, c, cached)
        IN /\ Pinned(ino) => cached
           /\ cached => mrec[ino].seq > 0
           /\ cached => f \in {"none", "iget5_locked"}
           /\ Commit(s)
           /\ ret' = [op |-> "iget5", err |-> s.err, tr |-> s.tr, c |-> c,
                      cached |-> cached,
                      pre |-> [rec |-> mrec[ino], bad |-> ino \in i_bad]]

NsNext ==
    \/ ntfs_create_inode /\ UNCHANGED iovars
    \/ ntfs_link_inode /\ UNCHANGED iovars
    \/ ntfs_unlink_inode /\ UNCHANGED iovars
    \/ Return

SpecNs == NsInit /\ [][NsNext]_vars

\* ------------------------------------------------------- record references
\* Lookups by record reference, on records that are in use, removed or
\* never formatted.
IgetNext ==
    \/ ntfs_unlink_inode /\ UNCHANGED iovars
    \/ ntfs_iget5 /\ UNCHANGED iovars
    \/ Return

\* Not every entry of the volume was looked up before.
IgetInit == \E dents \in SUBSET (PairEntries \cup DirEntries) : NsInitOf(dents)

SpecIget == IgetInit /\ [][IgetNext]_vars

\* ------------------------------------------------------------- data file
Tails == {0, 904, 1808}
Offsets == {b * BlockSize : b \in 0..(MaxBytes \div BlockSize)}
Sizes == {x \in {o + d : o \in Offsets, d \in Tails} : x <= MaxBytes}
         \cup {MaxBytes + BlockSize} \cup {ResidentLen}
BSizes == {BlockSize, 2 * BlockSize}
GbFaults == {"none", "attr_data_get_block", "allocate",
             "attr_data_read_resident", "ll_rw_block"}

CommitFile(st) ==
    /\ i_size' = st.i_size
    /\ i_valid' = st.i_valid
    /\ frun' = st.frun
    /\ resident' = st.resident
    /\ fsparse' = st.fsparse

Pre == [i_size |-> i_size, i_valid |-> i_valid, frun |-> frun,
        resident |-> resident]

\* The file at mount: a regular file as ntfs_create_inode makes it (not
\* resident, no clusters), sparse or not; a resident file read from disk;
\* a file read from disk with data_size 10000 and valid_size 4096; or a
\* sparse file read from disk whose one cluster is a hole.
IoFileInit ==
    \E k \in {"new", "sparse", "resident", "ondisk", "hole"} :
        /\ resident = (k = "resident")
        /\ fsparse = (k \in {"sparse", "hole"})
        /\ i_size = IF k = "resident" THEN ResidentLen
                    ELSE IF k = "ondisk" THEN 2 * BlockSize + 1808
                    ELSE IF k = "hole" THEN BlockSize + 904 ELSE 0
        /\ i_valid = IF k = "ondisk" THEN BlockSize ELSE i_size
        /\ frun = IF k = "ondisk"
                  THEN [v \in 1..bytes_to_cluster(2 * BlockSize + 1808) |->
                           LcnOf(v - 1)]
                  ELSE IF k = "hole" THEN <<SPARSE_LCN>> ELSE <<>>

ntfs_get_block_vbo ==
    /\ ret.op = "idle"
    /\ nops < MaxOps
    /\ nops' = nops + 1
    /\ \E vbo \in Offsets, b_size \in BSizes, create \in BOOLEAN,
          ctx \in Ctxs, f \in GbFaults :
       \E lp64 \in IF ctx \in {GET_BLOCK_DIRECT_IO_W, GET_BLOCK_DIRECT_IO_R}
                    THEN BOOLEAN ELSE {TRUE} :
        LET r == get_block_vbo(File, vbo, b_size, create, ctx, f, lp64)
            c == [vbo |-> vbo, b_size |-> b_size, create |-> create,
                  ctx |-> ctx, f |-> f, lp64 |-> lp64]
        IN /\ CommitFile(r.st)
           /\ ret' = [op |-> "get_block", err |-> r.err, tr |-> r.tr, c |-> c,
                      bh |-> r.bh, pre |-> Pre]

\* The write path (file.c) extends the file to the end of the write before
\* it transfers, so a direct write ends inside i_size.
ntfs_direct_IO ==
    /\ ret.op = "idle"
    /\ nops < MaxOps
    /\ nops' = nops + 1
    /\ \E vbo \in Offsets, end \in Sizes, wr \in BOOLEAN, fix \in BOOLEAN,
          lp64 \in BOOLEAN :
       \E r \in {-5} \cup {x - vbo : x \in {y \in Sizes : y >= vbo}} :
        LET count == end - vbo
            reach == IF wr THEN DioReach(File, vbo, end, lp64)
                     ELSE IF vbo < i_size THEN Min(end, i_size) ELSE vbo
            d == direct_IO(File, vbo, count, wr, r, fix)
            c == [vbo |-> vbo, count |-> count, wr |-> wr, f |-> "none"]
        IN /\ end > vbo
           /\ wr => end <= i_size
           /\ vbo + r <= reach
           /\ (~resident /\ ~wr /\ vbo < i_valid /\ i_valid < end) \/ fix
           /\ CommitFile(d.st)
           /\ ret' = [op |-> "direct_IO", err |-> "0", tr |-> d.tr, c |-> c,
                      ret |-> d.ret, pre |-> Pre]

ntfs_set_size ==
    /\ ret.op = "idle"
    /\ nops < MaxOps
    /\ nops' = nops + 1
    /\ \E new_size \in Sizes, f \in {"none", "attr_set_size"} :
        LET r == set_size(File, new_size, f)
            c == [new_size |-> new_size, f |-> f]
        IN /\ CommitFile(r.st)
           /\ ret' = [op |-> "set_size", err |-> r.err, tr |-> r.tr, c |-> c,
                      pre |-> Pre]

IoReturn ==
    /\ ret.op # "idle"
    /\ ret' = Idle
    /\ UNCHANGED <<nsvars, iovars, nops>>

IoInit ==
    /\ mrec = [i \in Recs |-> IF i = Root THEN RootRec ELSE NoRec]
    /\ mft_used = {}
    /\ index = {}
    /\ dcache = {}
    /\ i_nlink = [i \in Recs |-> IF i = Root THEN 1 ELSE 0]
    /\ run = [i \in Recs |-> {}]
    /\ clst_used = {}
    /\ reparse = {}
    /\ i_bad = {}
    /\ dirty = FALSE
    /\ ni_locked = {}
    /\ posix_acl = FALSE
    /\ nops = 0
    /\ ret = Idle
    /\ IoFileInit

\* The volume of IoInit with a call in ret instead of Idle.
IoInitWith(r) ==
    /\ mrec = [i \in Recs |-> IF i = Root THEN RootRec ELSE NoRec]
    /\ mft_used = {}
    /\ index = {}
    /\ dcache = {}
    /\ i_nlink = [i \in Recs |-> IF i = Root THEN 1 ELSE 0]
    /\ run = [i \in Recs |-> {}]
    /\ clst_used = {}
    /\ reparse = {}
    /\ i_bad = {}
    /\ dirty = FALSE
    /\ ni_locked = {}
    /\ posix_acl = FALSE
    /\ nops = 0
    /\ ret = r
    /\ IoFileInit

IoNext ==
    \/ ntfs_get_block_vbo /\ UNCHANGED nsvars
    \/ ntfs_direct_IO /\ UNCHANGED nsvars
    \/ ntfs_set_size /\ UNCHANGED nsvars
    \/ IoReturn

SpecIO == IoInit /\ [][IoNext]_vars

\* --------------------------------------------------- run list writers
\* The operations of this file that write a run list: ntfs_create_inode on
\* the run of the new inode, ntfs_get_block_vbo and ntfs_set_size on the
\* run of the data file.
RunNext ==
    \/ ntfs_create_inode /\ UNCHANGED iovars
    \/ ntfs_get_block_vbo /\ UNCHANGED nsvars
    \/ ntfs_set_size /\ UNCHANGED nsvars
    \/ Return

\* The data file is the new sparse one, whose holes the resolver fills.
RunInit == IoInit /\ fsparse /\ frun = <<>>

SpecRun == RunInit /\ [][RunNext]_vars

\* ------------------------------------------------------- extent length
\* The end of ntfs_get_block_vbo (lines 637-646) on lengths of whole runs:
\* bytes is what is left of the run attr_data_get_block returned, b_size
\* the length the caller asked for.  A run of more than 0x40000000 bytes
\* does not fit the run lists of SpecIO, so the lengths are drawn here.
LenBSizes == {BlockSize, 2 * BlockSize, DIO_MAX - BlockSize, DIO_MAX,
              DIO_MAX + BlockSize}
LenBytes == {BlockSize, ClusterSize, DIO_MAX - BlockSize, DIO_MAX,
             DIO_MAX + BlockSize, DIO_MAX + ClusterSize}

LenInit ==
    \E b_size \in LenBSizes, bytes \in LenBytes, ctx \in Ctxs,
       lp64 \in BOOLEAN :
        /\ IoInitWith([op |-> "b_size_in", err |-> "0", tr |-> <<>>,
                       c |-> [f |-> "none", b_size |-> b_size,
                              bytes |-> bytes, ctx |-> ctx, lp64 |-> lp64]])
        /\ ~resident /\ ~fsparse /\ frun # <<>>

ntfs_get_block_b_size ==
    /\ ret.op = "b_size_in"
    /\ ret' = [ret EXCEPT !.op = "b_size"] @@
              [out |-> get_block_b_size(ret.c.b_size, ret.c.bytes, ret.c.ctx,
                                        ret.c.lp64)]
    /\ UNCHANGED <<nsvars, iovars, nops>>

LenNext ==
    \/ ntfs_get_block_b_size
    \/ Return

SpecLen == LenInit /\ [][LenNext]_vars

\* ------------------------------------------------------ symbolic links
\* ntfs_create_reparse_buffer on the targets ntfs_create_inode passes, and
\* ntfs_readlink_hlp on the payload it made and on payloads of a volume
\* written elsewhere.  A target is at most PATH_MAX - 1 bytes long.
MaxTarget == 3
PAGE_SIZE == 4096
Targets ==
    LET Chars == {SLASH, BACKSLASH, 97}
        Repeat(ch, n) == [i \in 1..n |-> ch]
    IN UNION {[1..n -> Chars] : n \in 1..MaxTarget}
           \cup {Repeat(97, n) : n \in {255, 256, 300, PATH_MAX - 1}}
           \cup {<<SLASH>> \o Repeat(97, 255)}

\* Payloads of each kind of tag, with names that end in a terminator or
\* not, at offsets and with lengths inside and outside of them.
Payloads ==
    LET NamedTags == {IO_REPARSE_TAG_SYMLINK, IO_REPARSE_TAG_MOUNT_POINT}
        OtherTags == {Tag(FALSE, TRUE, 1), Tag(FALSE, FALSE, 1),
                      Tag(TRUE, FALSE, 9), Tag(TRUE, TRUE, 10)}
        Paths == {<<>>, <<0>>, <<97, 0>>, <<97, BACKSLASH, 98>>,
                  <<97, BACKSLASH, 98, 0>>}
    IN {[tag |-> tag, data_len |-> 0, off |-> o, len |-> l, path |-> p] :
           tag \in NamedTags, o \in {0, 2, 4},
           l \in {0, 1, 2, 3, 4, 6, 8, 65534}, p \in Paths}
       \cup {[tag |-> tag, data_len |-> d, off |-> 0, len |-> 0,
              path |-> p] :
                tag \in OtherTags, d \in {0, 24, 26, 28, 32}, p \in Paths}
       \cup {[tag |-> tag, data_len |-> 0, off |-> 0, len |-> 4,
              path |-> <<97, 0>>] : tag \in CloudTags}

LinkInit ==
    LET Call(op, c) == [op |-> op, err |-> "0", tr |-> <<>>, c |-> c]
        ISizes == {4, 5, 16, 18, 20, 22, 24, 26, 28, 30, 32,
                   MAXIMUM_REPARSE_DATA_BUFFER_SIZE + 1}
        AttrFaults == {<<"none", "none">>, <<"resident", "none">>,
                       <<"resident", "resident_data_ex">>,
                       <<"resident", "ntfs_utf16_to_nls">>,
                       <<"nonresident", "none">>,
                       <<"nonresident", "ntfs_malloc">>,
                       <<"nonresident", "ntfs_read_run_nb">>}
    IN
    /\ \/ \E symname \in Targets,
             max_size \in {32, MAXIMUM_REPARSE_DATA_BUFFER_SIZE},
             f \in {"none", "ntfs_zalloc", "ntfs_nls_to_utf16"},
             af \in {<<"resident", "none">>, <<"nonresident", "none">>} :
              IoInitWith(Call("symname_in",
                              [f |-> f, symname |-> symname,
                               max_size |-> max_size, attr |-> af[1],
                               rf |-> af[2], buflen |-> PAGE_SIZE]))
       \/ \E rp \in Payloads, isize \in ISizes, af \in AttrFaults,
             buflen \in {4, PAGE_SIZE} :
              /\ buflen = PAGE_SIZE \/ rp.tag \in CloudTags
              /\ IoInitWith(Call("payload_in",
                                 [f |-> af[2], attr |-> af[1], rp |-> rp,
                                  isize |-> isize, buflen |-> buflen,
                                  max_size |->
                                      MAXIMUM_REPARSE_DATA_BUFFER_SIZE]))
    /\ ~resident /\ ~fsparse /\ frun # <<>>

ntfs_create_reparse_buffer ==
    /\ ret.op = "symname_in"
    /\ LET r == create_reparse_buffer(ret.c.symname, ret.c.max_size, ret.c.f)
       IN ret' = IF r.err = "0"
                 THEN [ret EXCEPT !.op = "payload_in",
                                  !.c = @ @@ [rp |-> r.rp, isize |-> r.nsize,
                                              made |-> TRUE],
                                  !.c.f = ret.c.rf]
                 ELSE [ret EXCEPT !.op = "create_reparse_buffer",
                                  !.err = r.err]
    /\ UNCHANGED <<nsvars, iovars, nops>>

ntfs_readlink_hlp ==
    /\ ret.op = "payload_in"
    /\ ret' = [ret EXCEPT !.op = "readlink_hlp"] @@
              [out |-> readlink_hlp(ret.c.isize, ret.c.attr, ret.c.rp,
                                    ret.c.buflen, ret.c.max_size, ret.c.f)]
    /\ UNCHANGED <<nsvars, iovars, nops>>

LinkNext ==
    \/ ntfs_create_reparse_buffer
    \/ ntfs_readlink_hlp
    \/ Return

SpecLink == LinkInit /\ [][LinkNext]_vars

\* ------------------------------------------------------- record builder
\* The record ntfs_create_inode builds, for each kind of inode, names of
\* one unit and of NTFS_NAME_LEN units, volumes with and without security
\* ids and with clusters of 512 bytes and of ClusterSize; and
\* ntfs_get_block_vbo on the file just made, which is empty.  A run of one
\* cluster packs into 3 to 7 bytes, and a byte ends the list.
RecInit ==
    /\ \E mode \in {"reg", "dir", "lnk"}, uni_len \in {1, NTFS_NAME_LEN},
          sec \in BOOLEAN, opt \in {"none", "sparse", "compressed"},
          size \in {3, 173, 174, 200, 3833, PATH_MAX - 1},
          cbits \in {9, ClusterBits},
          packed \in {4, 96, 97, 104, 105, 176, 177, 181, 184, 185, 211},
          f \in {"none", "run_pack", "run_pack_vcn"} :
        LET clst == (ntfs_reparse_bytes(size) + 2 ^ cbits - 1) \div 2 ^ cbits
        IN
        /\ mode # "reg" => opt = "none"
        /\ mode # "lnk" => /\ size = 3 /\ cbits = ClusterBits
                           /\ packed = 4 /\ f = "none"
        /\ packed <= 7 * clst + 1
        /\ IoInitWith([op |-> "rec_in", err |-> "0", tr |-> <<>>,
                       c |-> [f |-> f, mode |-> mode, uni_len |-> uni_len,
                              sec |-> sec, opt |-> opt, size |-> size,
                              cbits |-> cbits, packed |-> packed]])
    /\ i_size = 0 /\ i_valid = 0 /\ frun = <<>> /\ ~resident

ntfs_create_rec ==
    /\ ret.op = "rec_in"
    /\ ret' = [ret EXCEPT !.op = "create_rec"] @@ [rec |-> create_rec(ret.c)]
    /\ UNCHANGED <<nsvars, iovars, nops>>

RecNext ==
    \/ ntfs_create_rec
    \/ ntfs_get_block_vbo /\ UNCHANGED nsvars
    \/ Return

SpecRec == RecInit /\ [][RecNext]_vars

\* ------------------------------------------------------- attribute walk
\* The attribute walk of ntfs_read_mft.  An attribute as the walk sees it
\* (NoAttr is the NULL that ends an enumeration):
\* v names the contents of a STANDARD_INFO (its times, its flags and its
\* security id), long says that it has the size of ATTR_STD_INFO5, ok that
\* it is resident and not shorter than ATTR_STD_INFO; named is name_len # 0;
\* vcn says that the list entry that led to the attribute has a vcn # 0.
MFT_REC_MFT == 0
MFT_REC_LOG == 2
NoAttr == [type |-> "NULL", v |-> 0, long |-> FALSE, ok |-> FALSE,
           named |-> FALSE, vcn |-> FALSE, non_res |-> FALSE, dos |-> FALSE]

\* ni_enum_attr_ex: without a loaded attribute list (ni->attr_list.size = 0)
\* the next attribute of the base record, and le = NULL; with one, the
\* attribute of the next list entry, and le = that entry.
ni_enum_attr_ex(w, c) ==
    LET q == IF w.al_size = 0 THEN c.prim ELSE c.alist
    IN [attr |-> IF w.pos < Len(q) THEN q[w.pos + 1] ELSE NoAttr,
        le |-> w.al_size # 0]

\* ntfs_load_attr_list: returns at once when a list is loaded; otherwise
\* reads the list, whose size is the data size of the ATTR_LIST attribute.
ntfs_load_attr_list(w, c) ==
    IF w.al_size # 0 THEN [err |-> "0", al_size |-> w.al_size]
    ELSE IF c.f = "ntfs_load_attr_list"
    THEN [err |-> "ENOMEM", al_size |-> 0]
    ELSE [err |-> "0", al_size |-> Len(c.alist)]

\* attr_unpack_run: the run list of the attribute, named by its v, is
\* unpacked and added to the run tree.
read_mft_unpack(w, a, c) ==
    IF c.f = "run_unpack_ex" THEN [w EXCEPT !.err = "EINVAL"]
    ELSE [w EXCEPT !.pos = @ + 1, !.run = Append(@, a.v)]

\* The switch on attr->type for a record that is none of the meta files
\* $BadClus, $Secure and $Bitmap and has no ATTR_ALLOC, ATTR_BITMAP or
\* ATTR_EA_INFO.  For a FILE_NAME v is the name and dos its namespace, for a
\* DATA v is its data and valid size, for a REPARSE v = 1 is what
\* ni_parse_reparse finds to be REPARSE_LINK; named is name_len # 0 (for an
\* ATTR_ROOT: the name is $I30), ok the tests of form of the case.
read_mft_switch(w, a, le, c) ==
    LET next == [w EXCEPT !.pos = @ + 1]
        out == [w EXCEPT !.err = "EINVAL"]
    IN
    IF a.type = "ATTR_STD"
    THEN IF ~a.ok THEN out
         ELSE IF w.std5 # 0 THEN next
         ELSE [next EXCEPT !.std5 = a.v, !.fa = a.v,
                           !.sec = IF a.long THEN a.v ELSE @]
    ELSE IF a.type = "ATTR_LIST"
    THEN IF a.named \/ le \/ c.ino = MFT_REC_LOG THEN out
         ELSE LET r == ntfs_load_attr_list(w, c) IN
              IF r.err # "0" THEN [w EXCEPT !.err = r.err]
              ELSE [w EXCEPT !.al_size = r.al_size, !.pos = 0,
                             !.restarts = @ + 1]
    ELSE IF a.type = "ATTR_NAME"
    THEN IF ~a.ok THEN out
         ELSE IF a.dos THEN next
         ELSE [next EXCEPT !.names = @ + 1,
                           !.is_match = @ \/ (c.name # 0 /\ c.name = a.v)]
    ELSE IF a.type = "ATTR_DATA"
    THEN IF w.is_dir \/ a.named THEN next
         ELSE LET w1 == [w EXCEPT !.sparse = a.long, !.i_size = a.v,
                                  !.mode = "S_IFREG",
                                  !.resident = ~a.non_res]
              IN IF ~a.non_res THEN [w1 EXCEPT !.pos = @ + 1]
                 ELSE read_mft_unpack(w1, a, c)
    ELSE IF a.type = "ATTR_ROOT"
    THEN IF a.non_res THEN out
         ELSE IF ~a.named THEN next
         ELSE IF ~a.ok THEN out
         ELSE IF ~w.is_dir THEN next
         ELSE IF c.f = "indx_init" THEN [w EXCEPT !.err = "EINVAL"]
         ELSE [next EXCEPT !.dir = TRUE, !.mode = "S_IFDIR"]
    ELSE IF a.type = "ATTR_REPARSE"
    THEN IF a.named \/ a.v # 1 THEN next
         ELSE LET w1 == [w EXCEPT !.i_size = a.v, !.dir = FALSE,
                                  !.run = IF w.dir THEN @ ELSE <<>>,
                                  !.mode = "S_IFLNK", !.is_dir = FALSE]
              IN IF a.non_res THEN read_mft_unpack(w1, a, c)
                 ELSE [w1 EXCEPT !.pos = @ + 1]
    ELSE next

\* One pass with a STANDARD_INFO that replaces the one met before.
read_mft_attr_last(w, a, le, c) ==
    IF le /\ a.vcn
    THEN IF c.ino # MFT_REC_MFT \/ a.type # "ATTR_DATA"
         THEN [w EXCEPT !.pos = @ + 1]
         ELSE read_mft_unpack(w, a, c)
    ELSE IF a.type = "ATTR_STD" /\ a.ok
    THEN [w EXCEPT !.pos = @ + 1, !.std5 = a.v, !.fa = a.v,
                   !.sec = IF a.long THEN a.v ELSE @]
    ELSE read_mft_switch(w, a, le, c)

\* One pass that sends every attribute to the switch.
read_mft_attr_all(w, a, le, c) == read_mft_switch(w, a, le, c)

\* What one pass through next_attr does with the attribute a that
\* ni_enum_attr_ex returned: a later segment is skipped, or unpacked into
\* the run list of the MFT; every other attribute goes to the switch on
\* attr->type.  std5 = 0 is the NULL pointer.
read_mft_attr(w, a, le, c) ==
    IF le /\ a.vcn
    THEN IF c.ino # MFT_REC_MFT \/ a.type # "ATTR_DATA"
         THEN [w EXCEPT !.pos = @ + 1]
         ELSE read_mft_unpack(w, a, c)
    ELSE read_mft_switch(w, a, le, c)

\* end_enum that counts the names before it looks for the match.
read_mft_end_names(w, c) ==
    IF w.std5 = 0 THEN [w EXCEPT !.err = "EINVAL"]
    ELSE IF w.names = 0 THEN [w EXCEPT !.err = "EINVAL"]
    ELSE IF ~w.is_match /\ c.name # 0 THEN [w EXCEPT !.err = "ENOENT"]
    ELSE IF w.mode = "S_IFDIR" THEN [w EXCEPT !.err = "0", !.nlink = 1]
    ELSE IF w.mode \in {"S_IFLNK", "S_IFREG"}
    THEN [w EXCEPT !.err = "0", !.nlink = w.names]
    ELSE IF c.extend THEN [w EXCEPT !.err = "0"]
    ELSE [w EXCEPT !.err = "EINVAL"]

\* end_enum.  c.name = 0 is the load without a name to look for, c.extend
\* says that the last FILE_NAME has $Extend as its home.
read_mft_end(w, c) ==
    IF w.std5 = 0 THEN [w EXCEPT !.err = "EINVAL"]
    ELSE IF ~w.is_match /\ c.name # 0 THEN [w EXCEPT !.err = "ENOENT"]
    ELSE IF w.names = 0 THEN [w EXCEPT !.err = "EINVAL"]
    ELSE IF w.mode = "S_IFDIR" THEN [w EXCEPT !.err = "0", !.nlink = 1]
    ELSE IF w.mode \in {"S_IFLNK", "S_IFREG"}
    THEN [w EXCEPT !.err = "0", !.nlink = w.names]
    ELSE IF c.extend THEN [w EXCEPT !.err = "0"]
    ELSE [w EXCEPT !.err = "EINVAL"]

\* The records loaded: up to MaxAttrs attributes in the base record, at most
\* one of them an ATTR_LIST, and up to MaxList entries in the attribute list
\* that it holds.  A load that fails before it reads the list is given the
\* empty list.  The records are those of the files of $Extend, which need
\* neither a DATA nor an index root to load.
WalkInit ==
    LET StdAttr(v, long, ok) == [NoAttr EXCEPT !.type = "ATTR_STD", !.v = v,
                                               !.long = long, !.ok = ok]
        ListAttr(named) == [NoAttr EXCEPT !.type = "ATTR_LIST",
                                          !.named = named]
        NameAttr == [NoAttr EXCEPT !.type = "ATTR_NAME", !.v = 1,
                                   !.ok = TRUE]
        Segment == [NoAttr EXCEPT !.type = "ATTR_DATA", !.vcn = TRUE]
        Stds == {StdAttr(1, FALSE, TRUE), StdAttr(2, TRUE, TRUE)}
        Prims == Stds \cup {StdAttr(3, TRUE, FALSE), ListAttr(FALSE),
                            ListAttr(TRUE), NameAttr}
        Entries == Stds \cup {ListAttr(FALSE), NameAttr, Segment}
        Lists(q) == {k \in 1..Len(q) : q[k].type = "ATTR_LIST"}
    IN
    \E prim \in UNION {[1..n -> Prims] : n \in 0..MaxAttrs},
       alist \in UNION {[1..n -> Entries] : n \in 0..MaxList},
       ino \in {MFT_REC_LOG, 64},
       f \in {"none", "mi_read", "ntfs_load_attr_list"} :
        /\ Cardinality(Lists(prim)) <= 1
        /\ Lists(prim) = {} => alist = <<>> /\ f # "ntfs_load_attr_list"
        /\ (ino = MFT_REC_LOG \/ \E k \in Lists(prim) : prim[k].named) =>
              alist = <<>> /\ f = "none"
        /\ f = "mi_read" => prim = <<>>
        /\ IoInitWith([op |-> "mft_in", err |-> "0", tr |-> <<>>,
                       c |-> [f |-> f, ino |-> ino, prim |-> prim,
                              alist |-> alist, name |-> 0, is_dir |-> FALSE,
                              base |-> TRUE, extend |-> TRUE]])

\* ntfs_read_mft up to its first arrival at next_attr: attr and le are NULL,
\* no attribute list is loaded, std5 is NULL (0).  A record that is not a
\* base record is not walked.
ntfs_read_mft ==
    LET w0 == [pos |-> 0, al_size |-> 0, std5 |-> 0, fa |-> 0, sec |-> 0,
               names |-> 0, restarts |-> 0, steps |-> 0, err |-> "walk",
               is_match |-> FALSE, is_dir |-> ret.c.is_dir, dir |-> FALSE,
               mode |-> "0", i_size |-> 0, resident |-> FALSE,
               sparse |-> FALSE, run |-> <<>>, nlink |-> 0]
        err == IF ret.c.f = "mi_init" THEN "ENOMEM"
               ELSE IF ret.c.f = "mi_read" THEN "EIO"
               ELSE IF ret.c.f \in {"seq", "inuse", "total"} THEN "EINVAL"
               ELSE IF ~ret.c.base THEN "0"
               ELSE "walk"
        tr == IF err = "walk" THEN ret.tr
              ELSE IF err = "0" THEN Append(ret.tr, "unlock_new_inode")
              ELSE Append(ret.tr, "iget_failed")
    IN
    /\ ret.op = "mft_in"
    /\ ret' = [ret EXCEPT !.op = "read_mft", !.err = err, !.tr = tr]
              @@ [w |-> [w0 EXCEPT !.err = err]]
    /\ UNCHANGED <<nsvars, iovars, nops>>

\* One pass through next_attr of the load in progress: the attribute that
\* ni_enum_attr_ex returns is dispatched, or, when it returns NULL, end_enum
\* is run; the load leaves through Ok or through out.
next_attr ==
    /\ ret.op = "read_mft"
    /\ ret.err = "walk"
    /\ ret.w.restarts < MaxRestarts
    /\ LET e == ni_enum_attr_ex(ret.w, ret.c)
           w1 == [ret.w EXCEPT !.steps = @ + 1]
           w2 == IF e.attr # NoAttr
                 THEN read_mft_attr(w1, e.attr, e.le, ret.c)
                 ELSE read_mft_end(w1, ret.c)
           tr == IF w2.err = "walk" THEN ret.tr
                 ELSE IF w2.err = "0" THEN Append(ret.tr, "unlock_new_inode")
                 ELSE Append(ret.tr, "iget_failed")
       IN ret' = [ret EXCEPT !.w = w2, !.err = w2.err, !.tr = tr]
    /\ UNCHANGED <<nsvars, iovars, nops>>

WalkNext ==
    \/ ntfs_read_mft
    \/ next_attr
    \/ Return

SpecWalk == WalkInit /\ [][WalkNext]_vars

\* The loads with later segments: a base record with STANDARD_INFO,
\* FILE_NAME, perhaps the first segment of DATA, and an ATTR_LIST whose list
\* has up to MaxList entries, first segments and later ones; record 0 is the
\* MFT itself.
SegInit ==
    LET A(type, v, ok) == [NoAttr EXCEPT !.type = type, !.v = v, !.ok = ok]
        Later(a) == [a EXCEPT !.vcn = TRUE]
        Std == [A("ATTR_STD", 1, TRUE) EXCEPT !.long = TRUE]
        Name == A("ATTR_NAME", 1, TRUE)
        Data(v) == [A("ATTR_DATA", v, TRUE) EXCEPT !.non_res = TRUE]
        List == A("ATTR_LIST", 0, TRUE)
        Firsts == {Std, Name, Data(1)}
        Laters == {Later([Std EXCEPT !.v = 2]),
                   Later(A("ATTR_STD", 3, FALSE)),
                   Later([Name EXCEPT !.v = 2]),
                   Later([Data(2) EXCEPT !.long = TRUE]),
                   Later(List),
                   Later(A("ATTR_REPARSE", 1, TRUE)),
                   Later([A("ATTR_ROOT", 0, TRUE) EXCEPT !.named = TRUE])}
    IN
    \E prim \in {<<Std, Name, List>>, <<Std, Name, Data(1), List>>,
                 <<List>>},
       alist \in UNION {[1..n -> Firsts \cup Laters] : n \in 1..MaxList},
       ino \in {MFT_REC_MFT, 64}, dir \in BOOLEAN,
       f \in {"none", "run_unpack_ex"} :
        /\ ino = MFT_REC_MFT => ~dir
        /\ IoInitWith([op |-> "mft_in", err |-> "0", tr |-> <<>>,
                       c |-> [f |-> f, ino |-> ino, prim |-> prim,
                              alist |-> alist, name |-> 0,
                              is_dir |-> dir, base |-> TRUE,
                              extend |-> FALSE]])

SpecSeg == SegInit /\ [][WalkNext]_vars

\* ------------------------------------------------------ page operations
\* The page operations of a file.  r is what the resident helper returns:
\* "0", an error, or E_NTFS_NONRESIDENT when the file has turned
\* non-resident meanwhile; cmpr is is_compressed(ni).  They move data
\* between page and record and leave sizes and run list alone.
ResidentRets == {"0", "EIO", "E_NTFS_NONRESIDENT"}

ntfs_readpage ==
    /\ ret.op = "idle"
    /\ nops < MaxOps
    /\ nops' = nops + 1
    /\ \E r \in ResidentRets, cmpr \in BOOLEAN, f \in {"none", "EIO"} :
        LET t1 == IF resident
                  THEN <<"ni_lock", "attr_data_read_resident", "ni_unlock">>
                  ELSE <<>>
            c == [f |-> f, r |-> r, cmpr |-> cmpr]
        IN
        /\ (~resident => r = "0") /\ (~cmpr => f = "none")
        /\ ret' = IF resident /\ r # "E_NTFS_NONRESIDENT"
                  THEN [op |-> "readpage", err |-> r, c |-> c,
                        tr |-> t1 \o <<"unlock_page">>]
                  ELSE IF cmpr
                  THEN [op |-> "readpage", c |-> c,
                        err |-> IF f = "none" THEN "0" ELSE f,
                        tr |-> t1 \o <<"ni_lock", "ni_readpage_cmpr",
                                       "ni_unlock">>]
                  ELSE [op |-> "readpage", err |-> "0", c |-> c,
                        tr |-> t1 \o <<"mpage_readpage">>]
    /\ UNCHANGED <<nsvars, iovars>>

ntfs_writepage ==
    /\ ret.op = "idle"
    /\ nops < MaxOps
    /\ nops' = nops + 1
    /\ \E r \in ResidentRets :
        LET t1 == IF resident
                  THEN <<"ni_lock", "attr_data_write_resident", "ni_unlock">>
                  ELSE <<>>
            c == [f |-> "none", r |-> r]
        IN
        /\ ~resident => r = "0"
        /\ ret' = IF resident /\ r # "E_NTFS_NONRESIDENT"
                  THEN [op |-> "writepage", err |-> r, c |-> c,
                        tr |-> t1 \o <<"unlock_page">>]
                  ELSE [op |-> "writepage", err |-> "0", c |-> c,
                        tr |-> t1 \o <<"block_write_full_page">>]
    /\ UNCHANGED <<nsvars, iovars>>

ntfs_write_begin ==
    /\ ret.op = "idle"
    /\ nops < MaxOps
    /\ nops' = nops + 1
    /\ \E r \in ResidentRets,
          f \in {"none", "grab_cache_page_write_begin",
                 "block_write_begin"} :
        LET t1 == <<"grab_cache_page_write_begin", "ni_lock",
                    "attr_data_read_resident", "ni_unlock">>
            c == [f |-> f, r |-> r]
            blk == [op |-> "write_begin", c |-> c,
                    err |-> IF f = "block_write_begin" THEN "ENOMEM"
                            ELSE "0",
                    tr |-> (IF resident
                            THEN t1 \o <<"unlock_page", "put_page">>
                            ELSE <<>>) \o <<"block_write_begin">>]
        IN
        /\ ~resident => r = "0" /\ f # "grab_cache_page_write_begin"
        /\ ret' = IF ~resident THEN blk
                  ELSE IF f = "grab_cache_page_write_begin"
                  THEN [op |-> "write_begin", err |-> "ENOMEM", c |-> c,
                        tr |-> <<"grab_cache_page_write_begin">>]
                  ELSE IF r = "0"
                  THEN [op |-> "write_begin", err |-> "0", c |-> c,
                        tr |-> t1]
                  ELSE IF r # "E_NTFS_NONRESIDENT"
                  THEN [op |-> "write_begin", err |-> r, c |-> c,
                        tr |-> t1 \o <<"unlock_page", "put_page">>]
                  ELSE blk
    /\ UNCHANGED <<nsvars, iovars>>

\* arch: FILE_ATTRIBUTE_ARCHIVE is already set; moved: i_valid was changed
\* by ntfs_get_block_vbo since the write began.
ntfs_write_end ==
    /\ ret.op = "idle"
    /\ nops < MaxOps
    /\ nops' = nops + 1
    /\ \E r \in ResidentRets, f \in {"none", "generic_write_end"},
          arch \in BOOLEAN, moved \in BOOLEAN :
        LET c == [f |-> f, r |-> r, arch |-> arch, moved |-> moved]
            t1 == IF resident
                  THEN <<"ni_lock", "attr_data_write_resident", "ni_unlock",
                         "unlock_page", "put_page">>
                  ELSE <<"generic_write_end">>
            err == IF resident THEN r
                   ELSE IF f = "generic_write_end" THEN "EIO" ELSE "0"
            is_dirty == (resident /\ r = "0") \/ ~arch \/ moved
        IN
        /\ (~resident => r = "0") /\ (resident => f = "none")
        /\ ret' = [op |-> "write_end", err |-> err, c |-> c,
                   tr |-> IF err # "EIO" /\ is_dirty
                          THEN t1 \o <<"mark_inode_dirty">> ELSE t1]
    /\ UNCHANGED <<nsvars, iovars>>

\* The volume of NsInit with every entry looked up, and on it a data file
\* of IoFileInit that has data, resident or in clusters.
LockInit ==
    /\ mrec = [i \in Recs |->
                 IF i = Root THEN RootRec
                 ELSE IF i = PairIno THEN PairRec
                 ELSE IF i = DirIno THEN DirRec
                 ELSE NoRec]
    /\ mft_used = {e.ino : e \in PairEntries \cup DirEntries}
    /\ index = PairEntries \cup DirEntries
    /\ dcache = PairEntries \cup DirEntries
    /\ i_nlink = [i \in Recs |->
                    IF i = Root \/ i \in {e.ino : e \in index}
                    THEN 1 ELSE 0]
    /\ run = [i \in Recs |-> {}]
    /\ clst_used = {}
    /\ reparse = {}
    /\ i_bad = {}
    /\ dirty = FALSE
    /\ ni_locked = {}
    /\ posix_acl = FALSE
    /\ nops = 0
    /\ ret = Idle
    /\ IoFileInit
    /\ ~fsparse /\ i_size > 0

LockNext ==
    \/ ntfs_unlink_inode /\ UNCHANGED iovars
    \/ ntfs_set_size /\ UNCHANGED nsvars
    \/ ntfs_get_block_vbo /\ UNCHANGED nsvars
    \/ ntfs_readpage
    \/ ntfs_writepage
    \/ ntfs_write_begin
    \/ ntfs_write_end
    \/ Return

SpecLock == LockInit /\ [][LockNext]_vars

\* The loads of files, directories and symlinks by record number or by
\* name: a record with or without STANDARD_INFO, up to MaxNames + 1 FILE_NAME
\* attributes, and the attributes that decide the mode; the attributes sit
\* in the base record or are reached through its attribute list.
NamesInit ==
    LET A(type, v, ok) == [NoAttr EXCEPT !.type = type, !.v = v, !.ok = ok]
        Sti == [A("ATTR_STD", 1, TRUE) EXCEPT !.long = TRUE]
        NameKinds == {A("ATTR_NAME", 1, TRUE), A("ATTR_NAME", 2, TRUE),
                      [A("ATTR_NAME", 1, TRUE) EXCEPT !.dos = TRUE],
                      A("ATTR_NAME", 1, FALSE)}
        Strm == A("ATTR_DATA", 7, TRUE)
        Indx == [A("ATTR_ROOT", 0, TRUE) EXCEPT !.named = TRUE]
        Lnk == A("ATTR_REPARSE", 1, TRUE)
        Bodies == {<<>>, <<Strm>>, <<Indx>>, <<Indx, Lnk>>, <<Strm, Lnk>>}
    IN
    \E std \in BOOLEAN, via_list \in BOOLEAN, dir \in BOOLEAN,
       names \in UNION {[1..n -> NameKinds] : n \in 0..(MaxNames + 1)},
       body \in Bodies, name \in {0, 1, 3}, extend \in BOOLEAN,
       base \in BOOLEAN,
       f \in {"none", "mi_init", "mi_read", "seq", "inuse", "total",
              "indx_init"} :
        LET attrs == (IF std THEN <<Sti>> ELSE <<>>) \o names \o body
        IN
        /\ (f # "none" \/ ~base) =>
              /\ std /\ ~via_list /\ dir /\ name = 0 /\ ~extend
              /\ names = <<A("ATTR_NAME", 1, TRUE)>> /\ body = <<Indx>>
        /\ extend => body = <<>> /\ name = 0
        /\ IoInitWith([op |-> "mft_in", err |-> "0", tr |-> <<>>,
                       c |-> [f |-> f, ino |-> 64,
                              prim |-> IF via_list
                                       THEN <<A("ATTR_LIST", 0, TRUE)>>
                                       ELSE attrs,
                              alist |-> IF via_list THEN attrs ELSE <<>>,
                              name |-> name, is_dir |-> dir, base |-> base,
                              extend |-> extend]])
    /\ resident /\ i_size = ResidentLen

SpecNames == NamesInit /\ [][WalkNext]_vars

\* ================================================================ properties
Has(tr, e) == \E k \in 1..Len(tr) : tr[k] = e
Count(tr, e) == Cardinality({k \in 1..Len(tr) : tr[k] = e})
Pos(tr, e) == CHOOSE k \in 1..Len(tr) : tr[k] = e
Before(tr, a, b) == \A i, j \in 1..Len(tr) : (tr[i] = a /\ tr[j] = b) => i < j
Reverse(q) == [k \in 1..Len(q) |-> q[Len(q) + 1 - k]]

FailedCreate == ret.op = "create" /\ ret.err # "0"
GoodCreate == ret.op = "create" /\ ret.err = "0"

\* C1: a create that fails after ntfs_look_free_mft succeeded has called
\* ntfs_mark_rec_free exactly once, the record is free again, and if
\* ntfs_new_inode had formatted the record, clear_rec_inuse was called before
\* and the record is not in use; a create that succeeds never releases the
\* record, which stays reserved and in use.
C1_RecordReleasedOnFailure ==
    /\ (FailedCreate /\ Has(ret.tr, "ntfs_look_free_mft")) =>
          /\ Count(ret.tr, "ntfs_mark_rec_free") = 1
          /\ ret.c.ino \notin mft_used
          /\ Has(ret.tr, "ntfs_new_inode") =>
                /\ Count(ret.tr, "clear_rec_inuse") = 1
                /\ Before(ret.tr, "clear_rec_inuse", "ntfs_mark_rec_free")
                /\ ~mrec[ret.c.ino].inuse
    /\ GoodCreate =>
          /\ ~Has(ret.tr, "ntfs_mark_rec_free")
          /\ ~Has(ret.tr, "clear_rec_inuse")
          /\ ret.c.ino \in mft_used
          /\ mrec[ret.c.ino].inuse

C1_Witness ==
    /\ FailedCreate
    /\ Has(ret.tr, "ntfs_new_inode")
    /\ Has(ret.tr, "ntfs_mark_rec_free")

\* C2: after a failed create the index of the parent has no entry of the
\* new name for the new record and the dentry was not instantiated; after
\* a create that succeeded both are there.
C2_NoEntryAfterFailedCreate ==
    /\ FailedCreate =>
          /\ Ent(ret.c.dir, ret.c.name, ret.c.ino) \notin index
          /\ Ent(ret.c.dir, ret.c.name, ret.c.ino) \notin dcache
    /\ GoodCreate =>
          /\ Ent(ret.c.dir, ret.c.name, ret.c.ino) \in index
          /\ Ent(ret.c.dir, ret.c.name, ret.c.ino) \in dcache

\* C3: no failed create returns with clusters allocated to the new record:
\* its run list is empty, every cluster marked used belongs to the run
\* list of a reserved record, and the record number is free again.
C3_NoClusterLeak ==
    FailedCreate =>
        /\ ret.c.ino \in Inos => run[ret.c.ino] = {}
        /\ ret.c.ino \notin mft_used
        /\ clst_used = UNION {run[i] : i \in mft_used}

\* Scenario D: the index insert failed after clusters were allocated.
C3_Witness ==
    /\ FailedCreate
    /\ ret.c.f = "indx_insert_entry"
    /\ Has(ret.tr, "attr_allocate_clusters")
    /\ Has(ret.tr, "run_deallocate")

\* C4: after a failed link the record has a FILE_NAME attribute of the new
\* name exactly if the index of the directory has the entry.
HasFname(rec, d, n) ==
    \E k \in 1..Len(rec.fnames) :
        rec.fnames[k].home = d /\ rec.fnames[k].name = n

C4_LinkFailureAgrees ==
    (ret.op = "link" /\ ret.err # "0") =>
        (HasFname(mrec[ret.c.ino], ret.c.dir, ret.c.name)
            <=> Ent(ret.c.dir, ret.c.name, ret.c.ino) \in index)

\* C5: for the non-resident data attribute, valid_size <= data_size <=
\* alloc_size after every write resolve, direct write and resize.
C5_SizesOrdered ==
    ~resident => /\ i_valid <= i_size
                 /\ i_size <= Len(frun) * ClusterSize

\* A read resolve: create = 0 in a context that reads.
ReadResolve ==
    /\ ret.op = "get_block"
    /\ ~ret.c.create
    /\ ret.c.ctx # GET_BLOCK_DIRECT_IO_W
    /\ ret.err = "0"

\* The end of the bytes of the result that come from the disk: the mapped
\* extent, up to the zeroed segment if there is one.
DiskEnd ==
    IF ret.bh.mapped
    THEN IF ret.bh.zero # <<>> THEN ret.bh.zero[1]
         ELSE ret.c.vbo + ret.bh.b_size
    ELSE ret.c.vbo

\* C6 as stated: a read at or after valid_size maps nothing; a read that
\* maps a block which starts below valid_size and ends above it leaves the
\* page zero from valid_size to the end of the block; no byte of the file
\* at or after valid_size comes from the disk.
C6_ReadAboveValidIsZero ==
    ReadResolve =>
        /\ ret.c.vbo >= ret.pre.i_valid => ~ret.bh.mapped
        /\ (ret.bh.mapped /\ ret.c.vbo < ret.pre.i_valid
               /\ ret.pre.i_valid < ret.c.vbo + BlockSize) =>
              ret.bh.zero = <<ret.pre.i_valid, ret.c.vbo + BlockSize>>
        /\ ret.bh.mapped => DiskEnd <= ret.pre.i_valid

\* C6 amended: the block that crosses valid_size is zeroed from valid_size
\* on when valid_size is below data_size, and no byte of the file between
\* valid_size and data_size comes from the disk.
C6_ReadAboveValidIsZeroInsideFile ==
    ReadResolve =>
        /\ ret.c.vbo >= ret.pre.i_valid => ~ret.bh.mapped
        /\ (ret.bh.mapped /\ ret.c.vbo < ret.pre.i_valid
               /\ ret.pre.i_valid < ret.c.vbo + BlockSize
               /\ ret.pre.i_valid < ret.pre.i_size) =>
              /\ ret.bh.zero = <<ret.pre.i_valid, ret.c.vbo + BlockSize>>
              /\ ret.bh.b_size = BlockSize
        /\ ret.bh.mapped => Min(DiskEnd, ret.pre.i_size) <= ret.pre.i_valid

\* Scenario B: a read of the block that crosses valid_size.
C6_Witness ==
    /\ ReadResolve
    /\ ret.bh.mapped
    /\ ret.c.vbo < ret.pre.i_valid
    /\ ret.pre.i_valid < ret.c.vbo + BlockSize
    /\ ret.pre.i_valid < ret.pre.i_size

\* A buffered write resolve that got to the run list.
WriteResolve ==
    /\ ret.op = "get_block"
    /\ ret.c.create
    /\ ret.c.ctx # GET_BLOCK_DIRECT_IO_W
    /\ ~ret.pre.resident
    /\ ret.c.vbo < ret.pre.i_size

\* C7: a buffered write resolve advances valid_size only if its offset is
\* not above the old valid_size, and one whose offset is above it is
\* rejected and leaves valid_size alone.
C7_NoGapSkipped ==
    WriteResolve =>
        /\ i_valid # ret.pre.i_valid => ret.c.vbo <= ret.pre.i_valid
        /\ ret.c.vbo > ret.pre.i_valid =>
              (ret.err # "0" /\ i_valid = ret.pre.i_valid)

\* C8: in a failed create the compensating calls are the compensations of
\* the forward steps that succeeded, in the reverse order, after the last
\* forward step.
FwdSteps == {"ntfs_look_free_mft", "ntfs_new_inode", "attr_allocate_clusters",
             "ntfs_insert_reparse", "indx_insert_entry"}
UndoSteps == {"ntfs_mark_rec_free", "clear_rec_inuse", "run_deallocate",
              "ntfs_remove_reparse", "indx_delete_entry"}
UndoOf(e) ==
    CASE e = "ntfs_look_free_mft" -> "ntfs_mark_rec_free"
      [] e = "ntfs_new_inode" -> "clear_rec_inuse"
      [] e = "attr_allocate_clusters" -> "run_deallocate"
      [] e = "ntfs_insert_reparse" -> "ntfs_remove_reparse"
      [] e = "indx_insert_entry" -> "indx_delete_entry"
IsFwd(e) == e \in FwdSteps
IsUndo(e) == e \in UndoSteps

C8_UndoIsReverseOfForward ==
    FailedCreate =>
        LET fwd == SelectSeq(ret.tr, IsFwd)
            undo == SelectSeq(ret.tr, IsUndo)
        IN /\ undo = Reverse([k \in 1..Len(fwd) |-> UndoOf(fwd[k])])
           /\ \A i, j \in 1..Len(ret.tr) :
                 (IsFwd(ret.tr[i]) /\ IsUndo(ret.tr[j])) => i < j

\* C9: ntfs_unlink_inode removes a name by deleting its index entry, then
\* removing its FILE_NAME attribute, then decrementing hard_links; the
\* mutations of a call are these three, once per name removed, and the
\* names gone from the record are the names gone from the index.
UnlinkSteps == {"indx_delete_entry", "ni_remove_attr_le", "hard_links-1"}
IsUnlinkStep(e) == e \in UnlinkSteps
Triple == <<"indx_delete_entry", "ni_remove_attr_le", "hard_links-1">>
NameCount(rec, d, n) ==
    Cardinality({k \in 1..Len(rec.fnames) :
                    rec.fnames[k].home = d /\ rec.fnames[k].name = n})
AllNames == Names \cup {"a~1"}

C9_UnlinkOrder ==
    ret.op = "unlink" =>
        LET ev == SelectSeq(ret.tr, IsUnlinkStep)
            k == Len(ev) \div 3
            gone == ret.pre.index \ index
            now == mrec[ret.c.ino]
        IN /\ ev \in {<<>>, Triple, Triple \o Triple}
           /\ index \subseteq ret.pre.index
           /\ Cardinality(gone) = k
           /\ Len(ret.pre.rec.fnames) - Len(now.fnames) = k
           /\ now.hard_links = le16_add_cpu(ret.pre.rec.hard_links, 0 - k)
           /\ \A d \in Recs, n \in AllNames :
                 NameCount(ret.pre.rec, d, n) - NameCount(now, d, n)
                     = Cardinality({e \in gone : e.dir = d /\ e.name = n})
           /\ (ret.c.f = "indx_delete_entry" /\ ret.err # "0") => k = 0

\* Both names of a pair were removed.
C9_Witness ==
    /\ ret.op = "unlink"
    /\ ret.err = "0"
    /\ SelectSeq(ret.tr, IsUnlinkStep) = Triple \o Triple

\* The unlink of a directory that is not empty.
UnlinkNonEmptyDir ==
    /\ ret.op = "unlink"
    /\ ret.pre.rec.is_dir
    /\ \E e \in ret.pre.index : e.dir = ret.c.ino

UnlinkChangedNothing ==
    /\ index = ret.pre.index
    /\ mrec[ret.c.ino] = ret.pre.rec
    /\ i_nlink[ret.c.ino] = ret.pre.i_nlink
    /\ dirty = ret.pre.dirty
    /\ ret.c.ino \notin ni_locked

\* C10 as stated: the unlink of a directory that is not empty fails with
\* ENOTEMPTY, changes neither the index, the record, i_nlink nor the dirty
\* state, and returns with the lock released.
C10_NotEmpty ==
    UnlinkNonEmptyDir => (ret.err = "ENOTEMPTY" /\ UnlinkChangedNothing)

\* C10 amended: it fails with EINVAL instead when the index root of the
\* parent cannot be got, which is checked first.
C10_NotEmptyOrNoRoot ==
    UnlinkNonEmptyDir =>
        /\ ret.err = IF ret.c.f = "indx_get_root" THEN "EINVAL"
                     ELSE "ENOTEMPTY"
        /\ UnlinkChangedNothing

C10_Witness == UnlinkNonEmptyDir /\ ret.err = "ENOTEMPTY"

\* Calls that change a record, an index or the inode of the file.
MutSteps == {"ntfs_new_inode", "attr_allocate_clusters", "run_pack",
             "ntfs_insert_reparse", "indx_insert_entry", "ntfs_init_acl",
             "ntfs_sb_write_run", "indx_delete_entry", "ntfs_remove_reparse",
             "run_deallocate", "clear_rec_inuse", "clear_nlink",
             "ni_insert_resident", "ni_remove_attr_le", "hard_links-1",
             "drop_nlink", "make_bad_inode"}
IsMut(e) == e \in MutSteps
Mutates(tr) == \E k \in 1..Len(tr) : IsMut(tr[k])

\* Every mutation of tr is after the one call of a and before the one of b.
Bracketed(tr, a, b) ==
    /\ Count(tr, a) = 1
    /\ Count(tr, b) = 1
    /\ \A k \in 1..Len(tr) : IsMut(tr[k]) => (Pos(tr, a) < k /\ k < Pos(tr, b))

NsCall == ret.op \in {"create", "link", "unlink"}

PublishSteps == {"unlock_new_inode", "discard_new_inode"}

RunWrites == {"attr_set_size", "attr_allocate_clusters", "run_pack",
              "run_deallocate", "allocate"}
WritesRun(tr) == \E k \in 1..Len(tr) : tr[k] \in RunWrites

\* Every call of tr that is in S is after the one call of a and before the
\* one call of b.
BracketedIn(tr, S, a, b) ==
    /\ Count(tr, a) = 1
    /\ Count(tr, b) = 1
    /\ \A k \in 1..Len(tr) : tr[k] \in S => (Pos(tr, a) < k /\ k < Pos(tr, b))

RunCall == ret.op \in {"create", "get_block", "set_size"}

\* C12 as stated: every operation that writes a run list does it between
\* down_write and up_write of the run lock of the file.
C12_RunWritesUnderRunLock ==
    (RunCall /\ WritesRun(ret.tr)) =>
        BracketedIn(ret.tr, RunWrites, "down_write", "up_write")

\* C12 amended: ntfs_set_size resizes the run list between down_write and
\* up_write of the run lock, inside ni_lock; ntfs_create_inode allocates,
\* packs and deallocates the run of the new inode without the run lock,
\* before the new inode is unlocked or discarded; ntfs_get_block_vbo takes
\* no run lock itself.
C12_SetSizeUnderRunLock ==
    /\ (ret.op = "set_size" /\ WritesRun(ret.tr)) =>
          /\ BracketedIn(ret.tr, RunWrites, "down_write", "up_write")
          /\ BracketedIn(ret.tr, {"down_write", "up_write"},
                         "ni_lock", "ni_unlock")
    /\ ret.op = "create" =>
          /\ ~Has(ret.tr, "down_write")
          /\ ~Has(ret.tr, "up_write")
          /\ \A i, j \in 1..Len(ret.tr) :
                (ret.tr[i] \in RunWrites /\ ret.tr[j] \in PublishSteps)
                    => i < j
    /\ ret.op = "get_block" =>
          /\ ~Has(ret.tr, "down_write")
          /\ ~Has(ret.tr, "up_write")

\* A resize that changed the run list.
C12_Witness ==
    /\ ret.op = "set_size"
    /\ ret.err = "0"
    /\ Has(ret.tr, "attr_set_size")
    /\ frun # ret.pre.frun

\* A resolve that got to the run list lookup, and the cluster it looked up.
Lookup == ret.op = "get_block" /\ Has(ret.tr, "attr_data_get_block")
Vcn == ret.c.vbo \div ClusterSize
InRun == Vcn < Len(ret.pre.frun)
PreLcn == ret.pre.frun[Vcn + 1]

Again ==
    get_block_vbo(File, ret.c.vbo, ret.c.b_size, ret.c.create, ret.c.ctx,
                  ret.c.f, ret.c.lp64)
SameResult == Again.err = ret.err /\ Again.bh = ret.bh

\* C14 as stated: a resolve made a second time with the same arguments
\* returns the same error, flags, block number and length, for every
\* create and context.
C14_ResolveTwiceSame == ret.op = "get_block" => SameResult

\* C14 amended: this holds for create = 0, where the call leaves the file
\* as it was.
C14_ReadResolveTwiceSame ==
    (ret.op = "get_block" /\ ~ret.c.create) =>
        /\ i_size = ret.pre.i_size
        /\ i_valid = ret.pre.i_valid
        /\ frun = ret.pre.frun
        /\ resident = ret.pre.resident
        /\ SameResult

\* A read resolve that mapped a block.
C14_Witness ==
    /\ ret.op = "get_block"
    /\ ~ret.c.create
    /\ ret.err = "0"
    /\ ret.bh.mapped

\* C15: a resolve of an offset at or after data_size returns 0 with the
\* buffer not mapped, not new and not uptodate, whatever create and the
\* context are; it makes no call, and valid_size and the run list are what
\* they were.
C15_BeyondEof ==
    (ret.op = "get_block" /\ ret.c.vbo >= ret.pre.i_size) =>
        /\ ret.err = "0"
        /\ ~ret.bh.mapped /\ ~ret.bh.new /\ ~ret.bh.uptodate
        /\ ret.bh.b_blocknr = -1
        /\ ret.tr = <<>>
        /\ i_valid = ret.pre.i_valid
        /\ i_size = ret.pre.i_size
        /\ frun = ret.pre.frun

\* A write resolve after the end of a file that has data and clusters.
C15_Witness ==
    /\ ret.op = "get_block"
    /\ ret.c.create
    /\ ret.pre.i_size > 0
    /\ ret.c.vbo >= ret.pre.i_size
    /\ ret.c.vbo < Len(ret.pre.frun) * ClusterSize

\* A read resolve whose lookup found a hole of the run list.
ReadHole ==
    /\ Lookup /\ ~ret.c.create /\ InRun /\ PreLcn = SPARSE_LCN
    /\ ret.c.f # "attr_data_get_block"

\* The first cluster after the sparse run that holds Vcn.
SparseEnd ==
    CHOOSE e \in (Vcn + 1)..Len(ret.pre.frun) :
        /\ \A v \in (Vcn + 1)..e : ret.pre.frun[v] = SPARSE_LCN
        /\ e < Len(ret.pre.frun) => ret.pre.frun[e + 1] # SPARSE_LCN

\* C16 as stated: a read resolve on a hole returns 0 with the buffer not
\* mapped, and a length that is at most the bytes up to the end of the
\* sparse run and at most the bytes up to data_size.
C16_HoleSpanInsideFile ==
    ReadHole =>
        /\ ret.err = "0"
        /\ ~ret.bh.mapped
        /\ ret.bh.b_size <= SparseEnd * ClusterSize - ret.c.vbo
        /\ ret.bh.b_size <= ret.pre.i_size - ret.c.vbo

\* C16 amended: the length is the smaller of the requested length and the
\* bytes up to the end of the sparse run; it is not cut to data_size.
C16_HoleSpanInsideRun ==
    ReadHole =>
        /\ ret.err = "0"
        /\ ~ret.bh.mapped /\ ~ret.bh.new /\ ~ret.bh.uptodate
        /\ ret.bh.b_size =
              Min(ret.c.b_size, SparseEnd * ClusterSize - ret.c.vbo)
        /\ frun = ret.pre.frun
        /\ i_valid = ret.pre.i_valid

\* A hole whose span was cut to the end of the sparse run.
C16_Witness ==
    /\ ReadHole
    /\ ret.bh.b_size < ret.c.b_size

\* ------------------------------------------------------------------ C17
\* The run the lookup found: it starts at the cluster of vcn and goes on as
\* long as the clusters follow each other on the volume.
RunEndVcn ==
    CHOOSE e \in (Vcn + 1)..Len(frun) :
        /\ \A v \in (Vcn + 1)..e : frun[v] = frun[Vcn + 1] + (v - Vcn - 1)
        /\ e < Len(frun) => frun[e + 1] # frun[e] + 1
MapsReal ==
    /\ Lookup /\ ret.err = "0" /\ InRun
    /\ frun[Vcn + 1] # SPARSE_LCN

\* C17 (the extent length alone): the length ntfs_get_block_vbo leaves in
\* the buffer exceeds neither the bytes left in the run nor the length the
\* caller asked for.
C17_ExtentInsideRunAndRequest ==
    ret.op = "b_size" =>
        /\ ret.out <= ret.c.bytes
        /\ ret.out <= ret.c.b_size

\* C17 on runs below 0x40000000 bytes: when the lookup gives a real cluster
\* the buffer is mapped, unless the offset is a read at or above valid_size,
\* to the byte lcn * cluster size + offset in the cluster, and the length is
\* inside the run and inside the request.
C17_MappedAtLcn ==
    MapsReal =>
        /\ ret.bh.mapped \/ (~ret.c.create /\ ret.c.vbo >= ret.pre.i_valid)
        /\ ret.bh.b_blocknr * BlockSize
               = frun[Vcn + 1] * ClusterSize + (ret.c.vbo % ClusterSize)
        /\ ret.bh.b_size <= RunEndVcn * ClusterSize - ret.c.vbo
        /\ ret.bh.b_size <= ret.c.b_size

C17_Witness ==
    /\ MapsReal /\ ret.bh.mapped
    /\ ret.c.vbo % ClusterSize # 0
    /\ ret.bh.b_size < ret.c.b_size

\* ------------------------------------------------------------------ C18
ResidentCall ==
    /\ ret.op = "get_block" /\ ret.pre.resident
    /\ ret.c.vbo < ret.pre.i_size
ResidentRead == <<"ni_lock", "attr_data_read_resident", "ni_unlock">>
NeverMapped == ~ret.bh.mapped /\ ret.bh.b_blocknr = Bh0(0).b_blocknr
ReadUnderLock ==
    /\ ret.tr = ResidentRead
    /\ ret.bh.uptodate <=> ret.err = "0"
    /\ ret.err # "0" <=> ret.c.f = "attr_data_read_resident"
ResidentDirectIO ==
    (ret.op = "direct_IO" /\ ret.pre.resident) =>
        /\ ret.ret = 0
        /\ ~Has(ret.tr, "blockdev_direct_IO")
        /\ i_valid = ret.pre.i_valid

\* C18 as stated: a resolve on a resident file of an offset below data_size
\* never maps the buffer, reads the inline payload under the per-file lock,
\* marks the buffer uptodate exactly when the read succeeded and returns the
\* error of the read otherwise; direct I/O on a resident file transfers
\* nothing and returns 0.
C18_ResidentReadsInline ==
    /\ ResidentCall => NeverMapped /\ ReadUnderLock
    /\ ResidentDirectIO

\* C18 amended: the inline payload is read when the resolve has create set or
\* the offset is below valid_size; a resolve without create of an offset at
\* or above valid_size returns 0 before the read, the buffer neither mapped
\* nor uptodate.
C18_ResidentReadsInlineBelowValid ==
    /\ ResidentCall =>
          /\ NeverMapped
          /\ IF ret.c.create \/ ret.c.vbo < ret.pre.i_valid
             THEN ReadUnderLock
             ELSE ret.tr = <<>> /\ ret.err = "0" /\ ~ret.bh.uptodate
    /\ ResidentDirectIO

C18_Witness ==
    /\ ResidentCall /\ ret.bh.uptodate /\ ret.tr = ResidentRead
    /\ ret.c.vbo < ret.pre.i_valid

\* ------------------------------------------------------------------ C19
Iget == ret.op = "iget5" /\ ret.c.f # "iget5_locked"
Usable == ret.err = "0" /\ ret.c.ino \notin i_bad
Discarded ==
    /\ ret.err # "0"
    /\ Has(ret.tr, "iget_failed") /\ ~Has(ret.tr, "unlock_new_inode")
StaleRef == ~ret.c.replaying /\ ret.c.seq # ret.pre.rec.seq

Linked == ret.op = "link"
LinkRec == mrec[ret.c.ino]
LinkEnt == Ent(ret.c.dir, ret.c.name, ret.c.ino)
DuplicateKey ==
    /\ Linked /\ Has(ret.tr, "ni_insert_resident")
    /\ ret.c.f # "indx_insert_entry"
    /\ \E e \in ret.pre.index : e.dir = ret.c.dir /\ e.name = ret.c.name

\* C20: a link that succeeds adds one FILE_NAME attribute to the record,
\* the one of the new name, adds one entry to the index of the directory
\* and raises hard_links by 1; a link whose name is in the index already
\* fails with the error of the insert and leaves hard_links as it was.
C20_LinkAddsOneName ==
    /\ (Linked /\ ret.err = "0") =>
          /\ LinkRec.fnames
                = Append(ret.pre.rec.fnames,
                         Fname(ret.c.dir, ret.c.name, FILE_NAME_POSIX))
          /\ LinkEnt \notin ret.pre.index
          /\ index = ret.pre.index \cup {LinkEnt}
          /\ LinkRec.hard_links = ret.pre.rec.hard_links + 1
    /\ DuplicateKey =>
          /\ ret.err = "EEXIST"
          /\ index = ret.pre.index
          /\ LinkRec.hard_links = ret.pre.rec.hard_links

C20_Witness ==
    /\ Linked /\ ret.err = "0"
    /\ Len(LinkRec.fnames) = 2 /\ LinkRec.hard_links = 2

\* ------------------------------------------------------------------ C21
\* The attribute of the name that was unlinked, in the record as it was, and
\* the first attribute of the other type of its pair.
Unlinked == ret.op = "unlink" /\ ret.err = "0"
PreNames == ret.pre.rec.fnames
GoneAt ==
    CHOOSE k \in 1..Len(PreNames) :
        /\ PreNames[k].home = ret.c.dir /\ PreNames[k].name = ret.c.name
        /\ \A j \in 1..(k - 1) :
              ~(PreNames[j].home = ret.c.dir /\ PreNames[j].name = ret.c.name)
OtherType ==
    IF PreNames[GoneAt].type = FILE_NAME_DOS THEN FILE_NAME_UNICODE
    ELSE FILE_NAME_DOS
OthersAt == {k \in 1..Len(PreNames) : k # GoneAt /\ PreNames[k].type = OtherType}
OtherAt == CHOOSE k \in OthersAt : \A j \in OthersAt : k <= j
Without(q, ks) ==
    SelectSeq([k \in 1..Len(q) |-> <<k, q[k]>>],
              LAMBDA p : p[1] \notin ks)

\* C21: a successful unlink of a name that is not POSIX, in a record that
\* holds a name of the paired type, removes both attributes and both index
\* entries and lowers hard_links by 2; a successful unlink of a POSIX name
\* removes that one attribute and entry and lowers hard_links by 1.
C21_PairRemovedTogether ==
    Unlinked =>
        LET now == mrec[ret.c.ino]
            nm(ks) == [k \in 1..Len(Without(PreNames, ks)) |->
                         Without(PreNames, ks)[k][2]]
            ents(ks) == {Ent(ret.c.dir, PreNames[k].name, ret.c.ino) : k \in ks}
        IN
        /\ (PreNames[GoneAt].type # FILE_NAME_POSIX /\ OthersAt # {}) =>
              /\ now.fnames = nm({GoneAt, OtherAt})
              /\ index = ret.pre.index \ ents({GoneAt, OtherAt})
              /\ ents({GoneAt, OtherAt}) \subseteq ret.pre.index
              /\ now.hard_links = ret.pre.rec.hard_links - 2
        /\ PreNames[GoneAt].type = FILE_NAME_POSIX =>
              /\ now.fnames = nm({GoneAt})
              /\ index = ret.pre.index \ ents({GoneAt})
              /\ now.hard_links = ret.pre.rec.hard_links - 1

C21_Witness ==
    /\ Unlinked
    /\ PreNames[GoneAt].type # FILE_NAME_POSIX /\ OthersAt # {}
    /\ Len(mrec[ret.c.ino].fnames) = Len(PreNames) - 2
    /\ mrec[ret.c.ino].hard_links = 0

\* ------------------------------------------------------------------- C22
\* The payload ntfs_create_reparse_buffer made for the target was read back.
ReadBack ==
    /\ ret.op = "readlink_hlp"
    /\ "made" \in DOMAIN ret.c
    /\ ret.c.f = "none"

NoBackslash(name) == \A i \in 1..Len(name) : name[i] # BACKSLASH

\* C22: a target made of '/' and of characters other than the backslash,
\* whose payload fits the maximum reparse size, reads back as it was
\* written.
C22_RoundTrip ==
    (ReadBack /\ NoBackslash(ret.c.symname))
        => /\ ret.out.err = "0"
           /\ ret.out.out = ret.c.symname

\* The same for the targets of at most 255 characters.
C22_RoundTripShort ==
    (ReadBack /\ NoBackslash(ret.c.symname) /\ Len(ret.c.symname) <= 255)
        => /\ ret.out.err = "0"
           /\ ret.out.out = ret.c.symname

C22_Witness ==
    /\ ReadBack
    /\ Len(ret.c.symname) = 256
    /\ \E i \in 1..Len(ret.c.symname) : ret.c.symname[i] = SLASH
    /\ ret.out.err = "0"
    /\ ret.out.out # ret.c.symname

\* ------------------------------------------------------------------- C23
\* ntfs_readlink_hlp came back from a payload whose tag names a path; the
\* attribute was found and its payload loaded, or the size test at line
\* 1887 ended the call before that.
NameTag(tag) ==
    \/ tag \in {IO_REPARSE_TAG_SYMLINK, IO_REPARSE_TAG_MOUNT_POINT}
    \/ ~tag.ms /\ tag.ns

Decoded ==
    /\ ret.op = "readlink_hlp"
    /\ NameTag(ret.c.rp.tag)

SizeRefused == ret.c.isize <= 4 \/ ret.c.isize > ret.c.max_size

Loaded == ret.c.attr # "none" /\ ret.c.f \in {"none", "ntfs_utf16_to_nls"}

Hdr ==
    IF ret.c.rp.tag = IO_REPARSE_TAG_MOUNT_POINT THEN 16
    ELSE IF ret.c.rp.tag = IO_REPARSE_TAG_SYMLINK THEN 20
    ELSE SIZEOF_REPARSE_POINT

DeclOff == IF ret.c.rp.tag.ms THEN ret.c.rp.off ELSE 0

DeclLen ==
    IF ret.c.rp.tag.ms THEN ret.c.rp.len
    ELSE (ret.c.rp.data_len - SIZEOF_REPARSE_POINT) % 65536

Refused == ret.out.err = "EINVAL" /\ ret.out.out = <<>> /\ ret.out.n = 0

\* The k-th unit of the declared name, as the result shows it.
NameUnit(k) ==
    LET j == DeclOff \div 2 + k
        u == IF j <= Len(ret.c.rp.path) THEN ret.c.rp.path[j] ELSE 0
    IN IF u = BACKSLASH THEN SLASH ELSE u

LastUnit == NameUnit(DeclLen \div 2)

TerminatorDropped ==
    (ret.out.err = "0" /\ LastUnit = 0)
        => /\ ret.out.n < DeclLen \div 2
           /\ \A k \in 1..ret.out.n : ret.out.out[k] = NameUnit(k)

\* C23 as stated: no unit outside the payload is read; a name whose
\* declared offset plus length passes i_size, a declared length of zero, a
\* payload not larger than the header of its tag, of at most 4 bytes or
\* above the maximum reparse size is refused with EINVAL and no path; a
\* terminator at the end of the declared length is not in the result.
C23_NameInsidePayload ==
    Decoded =>
        /\ ~ret.out.oob
        /\ (SizeRefused \/ (Loaded /\ (\/ Hdr + DeclOff + DeclLen > ret.c.isize
                                       \/ DeclLen = 0
                                       \/ ret.c.isize <= Hdr)))
               => Refused
        /\ TerminatorDropped

\* C23, amended: the length that counts is the declared length in whole
\* 16-bit units; the odd byte of an odd length is not part of the name.
C23_NameUnitsInsidePayload ==
    Decoded =>
        /\ ~ret.out.oob
        /\ (SizeRefused
            \/ (Loaded /\ (\/ Hdr + DeclOff + 2 * (DeclLen \div 2)
                                 > ret.c.isize
                           \/ DeclLen \div 2 = 0
                           \/ ret.c.isize <= Hdr)))
               => Refused
        /\ TerminatorDropped

\* A name of one unit and a terminator, declared with both, at the very end
\* of the payload, is returned without the terminator.
C23_Witness ==
    /\ Decoded
    /\ Loaded
    /\ Hdr + DeclOff + DeclLen = ret.c.isize
    /\ DeclLen = 4
    /\ LastUnit = 0
    /\ ret.out.err = "0"
    /\ ret.out.out = <<97>>

\* ------------------------------------------------------------------- C24
\* ntfs_readlink_hlp came to the switch at line 1917 and no later call
\* failed.
Dispatched ==
    /\ ret.op = "readlink_hlp"
    /\ ~SizeRefused
    /\ ret.c.attr # "none"
    /\ ret.c.f = "none"

Label == SubSeq(OneDrive, 1, Min(Len(OneDrive), ret.c.buflen))

\* C24: a cloud tag gives the label "OneDrive" cut to the buffer, whatever
\* the payload holds; another Microsoft tag that is neither symlink nor
\* mount point fails; a tag of a vendor fails unless it has the
\* name-surrogate bit and the payload is larger than struct REPARSE_POINT,
\* and then what comes back is read from the name behind that header.
C24_TagDispatch ==
    Dispatched =>
        LET tag == ret.c.rp.tag IN
        /\ tag \in CloudTags
               => /\ ret.out.err = "0"
                  /\ ret.out.n = Len(Label)
                  /\ ret.out.out = Label
        /\ (/\ tag.ms
            /\ tag \notin CloudTags
            /\ tag \notin {IO_REPARSE_TAG_SYMLINK, IO_REPARSE_TAG_MOUNT_POINT})
               => Refused
        /\ (~tag.ms /\ (~tag.ns \/ ret.c.isize <= SIZEOF_REPARSE_POINT))
               => Refused
        /\ (~tag.ms /\ tag.ns /\ ret.c.isize > SIZEOF_REPARSE_POINT)
               => \/ Refused
                  \/ /\ ret.out.err = "0"
                     /\ ret.out.n \in {DeclLen \div 2, DeclLen \div 2 - 1}
                     /\ \A k \in 1..ret.out.n : ret.out.out[k] = NameUnit(k)

\* The label was cut to a buffer of four bytes; the payload held a name.
C24_Witness ==
    /\ Dispatched
    /\ ret.c.rp.tag = IO_REPARSE_TAG_CLOUD(15)
    /\ ret.c.buflen = 4
    /\ ret.c.rp.path # <<>>
    /\ ret.out.out = <<79, 110, 101, 68>>

\* The name behind the generic header came back.
C24_WitnessVendor ==
    /\ Dispatched
    /\ ~ret.c.rp.tag.ms
    /\ ret.out.err = "0"
    /\ ret.out.out = <<97, SLASH, 98>>

\* ------------------------------------------------------------------- C25
\* A create of a symlink came to ntfs_create_reparse_buffer (line 1488) and
\* the allocation in it did not fail.
EncoderCalled ==
    /\ ret.op = "create"
    /\ is_link(ret.c)
    /\ Has(ret.tr, "ntfs_new_inode")
    /\ ret.c.f \notin {"fill_name_de", "ntfs_create_reparse_buffer"}

\* C25: a symlink whose payload of 20 + 2 * (2 * length + 4) bytes is above
\* the maximum reparse size is refused with EFBIG, for each length up to
\* PATH_MAX - 1; the create leaves no record, no dentry, no clusters and no
\* entry of the reparse index, and has not called indx_insert_entry.
C25_TooLargeSymlinkRefused ==
    (EncoderCalled
     /\ ntfs_reparse_bytes(ret.c.size) > MAXIMUM_REPARSE_DATA_BUFFER_SIZE)
        => /\ ret.err = "EFBIG"
           /\ ret.c.ino \notin mft_used
           /\ ~mrec[ret.c.ino].inuse
           /\ Ent(ret.c.dir, ret.c.name, ret.c.ino) \notin dcache
           /\ run[ret.c.ino] = {}
           /\ clst_used = UNION {run[i] : i \in mft_used}
           /\ ret.c.ino \notin reparse
           /\ ~Has(ret.tr, "attr_allocate_clusters")
           /\ ~Has(ret.tr, "indx_insert_entry")

C25_Witness ==
    /\ EncoderCalled
    /\ ret.c.size = PATH_MAX - 1
    /\ ret.err = "EFBIG"
    /\ Has(ret.tr, "ntfs_mark_rec_free")

\* The encoder alone, on the targets and maximum sizes of SpecLink: the
\* size fits 16 bits and is refused exactly when it is above the maximum.
C25_SizeNeverWraps ==
    (ret.op \in {"payload_in", "readlink_hlp", "create_reparse_buffer"}
     /\ "symname" \in DOMAIN ret.c /\ ret.c.f # "ntfs_nls_to_utf16"
     /\ (ret.op = "create_reparse_buffer" => ret.err = "EFBIG"))
        => /\ ntfs_reparse_bytes(Len(ret.c.symname)) < 65536
           /\ ret.op = "create_reparse_buffer"
                  <=> ntfs_reparse_bytes(Len(ret.c.symname)) > ret.c.max_size

\* ------------------------------------------------------------------- C26
Built == ret.op = "create_rec" /\ ret.rec.err = "0"

Types(attrs) == [k \in 1..Len(attrs) |-> attrs[k].type]

\* The DATA attribute of a file without extents.
EmptyData(a) ==
    /\ a.type = "ATTR_DATA"
    /\ a.non_res
    /\ a.data_size = 0 /\ a.valid_size = 0 /\ a.alloc_size = 0
    /\ a.clst = 0

\* ntfs_get_block_vbo at offset 0 without create left the buffer unmapped.
ReadAtZero ==
    /\ ret.op = "get_block"
    /\ ret.c.vbo = 0
    /\ ~ret.c.create

\* C26 as stated: the record of a new regular file holds STANDARD_INFO,
\* FILE_NAME and a non-resident DATA without extents, in this order, with
\* the end marker behind them; the resolver maps nothing at offset 0.
C26_NewFileRecord ==
    /\ (Built /\ ret.c.mode = "reg")
           => /\ Types(ret.rec.attrs) = <<"ATTR_STD", "ATTR_NAME", "ATTR_DATA">>
              /\ EmptyData(ret.rec.attrs[Len(ret.rec.attrs)])
              /\ ret.rec.used = AttrEnd(ret.rec.attrs) + 8
    /\ ReadAtZero => ret.err = "0" /\ NeverMapped /\ ret.tr = <<>>

\* C26, amended: on a volume that gives no security id the record has
\* ATTR_SECURE between FILE_NAME and DATA.
C26_NewFileRecordWithSecurity ==
    /\ (Built /\ ret.c.mode = "reg")
           => /\ Types(ret.rec.attrs)
                     = IF ret.c.sec
                       THEN <<"ATTR_STD", "ATTR_NAME", "ATTR_DATA">>
                       ELSE <<"ATTR_STD", "ATTR_NAME", "ATTR_SECURE",
                              "ATTR_DATA">>
              /\ EmptyData(ret.rec.attrs[Len(ret.rec.attrs)])
              /\ ret.rec.used = AttrEnd(ret.rec.attrs) + 8
    /\ ReadAtZero => ret.err = "0" /\ NeverMapped /\ ret.tr = <<>>

C26_Witness ==
    /\ Built
    /\ ret.c.mode = "reg"
    /\ ret.c.sec
    /\ Len(ret.rec.attrs) = 3
    /\ ret.rec.used = 56 + 96 + 96 + 72 + 8

C26_WitnessRead ==
    /\ ReadAtZero
    /\ i_size = 0
    /\ ~ret.bh.mapped

\* ------------------------------------------------------------------- C27
\* C27: the record of a create that succeeds has used <= record_size.
C27_UsedInsideRecord == Built => ret.rec.used <= RecordSize

\* The same for the records whose reparse payload is resident, and for
\* files and directories.
C27_UsedInsideRecordResident ==
    (Built /\ \A k \in 1..Len(ret.rec.attrs) :
                  ret.rec.attrs[k].type = "ATTR_REPARSE"
                      => ~ret.rec.attrs[k].non_res)
        => ret.rec.used <= RecordSize

\* The longest name on a volume without security ids, in a directory.
C27_Witness ==
    /\ Built
    /\ ret.c.mode = "dir"
    /\ ret.c.uni_len = NTFS_NAME_LEN
    /\ ~ret.c.sec
    /\ ret.rec.used > RecordSize - 128

\* ------------------------------------------------------------------- C28
\* A create of a symlink whose payload was built.
PayloadBuilt ==
    /\ EncoderCalled
    /\ ntfs_reparse_bytes(ret.c.size) <= MAXIMUM_REPARSE_DATA_BUFFER_SIZE

\* The resident attribute of the payload, aligned, and the end marker fit
\* in what is left of the record behind the attributes written before.
FitsRecord ==
    QuadAlign(SIZEOF_RESIDENT + ntfs_reparse_bytes(ret.c.size)) + 8
        <= RecordSize - AttrEnd(create_attrs([mode |-> "lnk", uni_len |-> 1,
                                              sec |-> TRUE, opt |-> "none"]))

\* C28: the payload is resident exactly if it fits; attr_allocate_clusters
\* is called only if it does not, and ntfs_sb_write_run only then and only
\* after indx_insert_entry.
C28_ResidentIfFits ==
    PayloadBuilt =>
        /\ Has(ret.tr, "attr_allocate_clusters") => ~FitsRecord
        /\ (GoodCreate /\ ~FitsRecord)
               => Has(ret.tr, "attr_allocate_clusters")
        /\ FitsRecord => run[ret.c.ino] = {}
        /\ (GoodCreate /\ ~FitsRecord)
               => /\ run[ret.c.ino] # {}
                  /\ Cardinality(run[ret.c.ino])
                         = bytes_to_cluster(ntfs_reparse_bytes(ret.c.size))
        /\ Has(ret.tr, "ntfs_sb_write_run")
               => /\ ~FitsRecord
                  /\ Has(ret.tr, "attr_allocate_clusters")
                  /\ Has(ret.tr, "indx_insert_entry")
                  /\ Before(ret.tr, "indx_insert_entry", "ntfs_sb_write_run")
        /\ (GoodCreate /\ ~FitsRecord) => Has(ret.tr, "ntfs_sb_write_run")

\* The longest target that is resident, and the shortest that is not.
C28_Witness ==
    /\ PayloadBuilt
    /\ GoodCreate
    /\ ret.c.size = 174
    /\ Has(ret.tr, "ntfs_sb_write_run")

C28_WitnessResident ==
    /\ PayloadBuilt
    /\ GoodCreate
    /\ ret.c.size = 173
    /\ ~Has(ret.tr, "attr_allocate_clusters")

\* ------------------------------------------------------------------- C29
Walking == ret.op = "read_mft" /\ ret.c.f # "mi_read"
WalkDone == Walking /\ ret.err # "walk"
StdsOf(q) == {k \in 1..Len(q) : q[k].type = "ATTR_STD"}
ListsOf(q) == {k \in 1..Len(q) : q[k].type = "ATTR_LIST"}
Least(S) == CHOOSE k \in S : \A j \in S : k <= j
\* The base record holds a STANDARD_INFO in front of its ATTR_LIST.
StdBeforeList(q) ==
    /\ StdsOf(q) # {}
    /\ \A l \in ListsOf(q) : Least(StdsOf(q)) < l
\* The first STANDARD_INFO in the order of the walk.
FirstStd ==
    IF StdBeforeList(ret.c.prim)
    THEN ret.c.prim[Least(StdsOf(ret.c.prim))]
    ELSE ret.c.alist[Least(StdsOf(ret.c.alist))]

\* C29: the timestamps, the flags and the security id of the inode are those
\* of the first STANDARD_INFO the walk meets, whatever STANDARD_INFO follows
\* it in the base record or is met after the restart from the attribute
\* list (the security id only if that first attribute has the long form);
\* a load that succeeds has met one, and the load of a record without any
\* STANDARD_INFO fails.
C29_FirstStdWins ==
    /\ (Walking /\ ret.w.std5 # 0) =>
          /\ ret.w.std5 = FirstStd.v
          /\ ret.w.fa = FirstStd.v
          /\ ret.w.sec = IF FirstStd.long THEN FirstStd.v ELSE 0
    /\ (WalkDone /\ ret.err = "0") => ret.w.std5 # 0
    /\ (WalkDone /\ StdsOf(ret.c.prim) = {} /\ StdsOf(ret.c.alist) = {}) =>
          ret.err # "0"

\* C29 witness: a load succeeded that took the STANDARD_INFO of the base
\* record, restarted from the attribute list and met a different
\* STANDARD_INFO there.
C29_Witness ==
    /\ WalkDone /\ ret.err = "0"
    /\ ret.w.restarts = 1
    /\ StdBeforeList(ret.c.prim)
    /\ \E k \in StdsOf(ret.c.alist) :
          /\ ret.c.alist[k].v # ret.w.std5
          /\ ret.c.alist[k].long # FirstStd.long
    /\ ret.w.steps = Len(ret.c.prim) + Len(ret.c.alist) + 1

\* C29 witness: the walk of a record without STANDARD_INFO reached end_enum
\* with a FILE_NAME counted.
C29_WitnessNoStd ==
    /\ WalkDone /\ ret.err = "EINVAL"
    /\ StdsOf(ret.c.prim) = {} /\ StdsOf(ret.c.alist) = {}
    /\ ret.w.names > 0
    /\ ret.w.steps = Len(ret.c.prim) + 1

C30_ListDrivenNeverRestarts ==
    (Walking /\ ret.c.alist # <<>>) =>
        /\ ret.w.restarts <= 1
        /\ ret.w.steps <= Len(ret.c.prim) + Len(ret.c.alist) + 1
        /\ (ret.w.restarts = 1 /\ ret.w.pos < Len(ret.c.alist)
              /\ ret.c.alist[ret.w.pos + 1].type = "ATTR_LIST"
              /\ WalkDone) => ret.err = "EINVAL"

\* A load whose attribute list is empty has restarted the walk a second
\* time.
C30_RestartedAgain ==
    /\ Walking /\ ret.err = "walk"
    /\ ret.c.alist = <<>>
    /\ ret.w.restarts >= 2
    /\ ret.w.al_size = 0

\* ------------------------------------------------------------------- C31
\* The file state that a load fills in.
LoadedState(w) == <<w.i_size, w.resident, w.sparse, w.fa, w.std5, w.sec,
                    w.names, w.is_match, w.mode, w.dir, w.is_dir, w.nlink,
                    w.al_size, w.restarts>>
\* The attribute that the next pass through next_attr is given.
Reached == ni_enum_attr_ex(ret.w, ret.c)
AtSegment ==
    /\ ret.op = "read_mft" /\ ret.err = "walk"
    /\ Reached.le /\ Reached.attr.vcn

\* C31: a pass of the walk over an attribute whose list entry has a vcn
\* other than 0 leaves sizes, flags, name count, mode and run list as they
\* were and goes on to the next entry, whatever the type and the form of the
\* attribute; only for the DATA of record 0, the MFT, the run list of the
\* segment is unpacked and added to the run list of the MFT (or the load
\* fails when it cannot be unpacked), and nothing else changes.
C31_SegmentsChangeNothing ==
    [][(AtSegment /\ ret'.op = "read_mft") =>
          /\ LoadedState(ret'.w) = LoadedState(ret.w)
          /\ IF ret.c.ino = MFT_REC_MFT /\ Reached.attr.type = "ATTR_DATA"
             THEN \/ /\ ret'.err = "walk"
                     /\ ret'.w.run = Append(ret.w.run, Reached.attr.v)
                     /\ ret'.w.pos = ret.w.pos + 1
                  \/ /\ ret'.err = "EINVAL"
                     /\ ret.c.f = "run_unpack_ex"
                     /\ ret'.w.run = ret.w.run
             ELSE /\ ret'.err = "walk"
                  /\ ret'.w.run = ret.w.run
                  /\ ret'.w.pos = ret.w.pos + 1]_vars

\* C31 witness: a load of a file succeeded whose list held, after the
\* entries of STANDARD_INFO and FILE_NAME, a later segment of a FILE_NAME or
\* of a DATA; it has one name and the size of no DATA.
C31_Witness ==
    /\ ret.op = "read_mft" /\ ret.err = "0"
    /\ ret.c.ino # MFT_REC_MFT
    /\ ret.w.restarts = 1
    /\ ret.w.pos = Len(ret.c.alist)
    /\ \E k \in 1..Len(ret.c.alist) :
          /\ ret.c.alist[k].vcn
          /\ ret.c.alist[k].type \in {"ATTR_NAME", "ATTR_DATA"}
    /\ ret.w.names <= 1

\* C31 witness: the load of the MFT has added the run list of a later
\* segment of its DATA to the run list that the first segment gave.
C31_WitnessMft ==
    /\ ret.op = "read_mft" /\ ret.c.ino = MFT_REC_MFT
    /\ ret.w.restarts = 1
    /\ ret.w.run = <<1, 2>>
    /\ ret.w.i_size = 1

\* ------------------------------------------------------------------- C32
\* The locks held after the first n events of a trace.
HeldNi(tr, n) ==
    Cardinality({k \in 1..n : tr[k] = "ni_lock"})
    - Cardinality({k \in 1..n : tr[k] = "ni_unlock"})
HeldRun(tr, n) ==
    Cardinality({k \in 1..n : tr[k] = "down_write"})
    - Cardinality({k \in 1..n : tr[k] = "up_write"})

\* C32: every call returns with the lock of the file and the run lock
\* released, whatever its result; a lock is never taken twice; the run lock
\* is taken and given back only while the lock of the file is held, and the
\* lock of the file is neither taken nor released while the run lock is
\* held.
C32_LocksReleasedInOrder ==
    /\ ni_locked = {}
    /\ ret.op # "idle" =>
          /\ HeldNi(ret.tr, Len(ret.tr)) = 0
          /\ HeldRun(ret.tr, Len(ret.tr)) = 0
          /\ \A n \in 1..Len(ret.tr) :
                /\ HeldNi(ret.tr, n) \in {0, 1}
                /\ HeldRun(ret.tr, n) \in {0, 1}
                /\ ret.tr[n] \in {"down_write", "up_write"} =>
                      HeldNi(ret.tr, n) = 1
                /\ ret.tr[n] \in {"ni_lock", "ni_unlock"} =>
                      HeldRun(ret.tr, n) = 0

\* C32 witness: ntfs_set_size failed inside both locks.
C32_Witness ==
    /\ ret.op = "set_size" /\ ret.err # "0"
    /\ Has(ret.tr, "ni_lock") /\ Has(ret.tr, "down_write")

\* C32 witness: ntfs_unlink_inode left through an error exit after ni_lock.
C32_WitnessUnlink ==
    /\ ret.op = "unlink" /\ ret.err # "0"
    /\ Has(ret.tr, "ni_lock")

\* C32 witness: ntfs_write_begin fell back to block_write_begin after the
\* resident read under the lock of the file.
C32_WitnessWriteBegin ==
    /\ ret.op = "write_begin"
    /\ Has(ret.tr, "ni_lock") /\ Has(ret.tr, "block_write_begin")

\* ------------------------------------------------------------------- C33
UnlinkCall == ret.op = "unlink"
\* The call got as far as the lookup of the name in the record, which
\* follows ntfs_set_state at once.
LookedUp == Has(ret.tr, "ntfs_set_state")
Benign == {"ENOTEMPTY", "ENOSPC", "EROFS"}

\* C33: ntfs_unlink_inode calls drop_nlink once when it returns 0 and not
\* at all when it fails, and the link count of the inode goes down by
\* exactly that, also when two FILE_NAME attributes were removed; a call
\* that fails after the lookup of the name began with an error other than
\* ENOTEMPTY, ENOSPC and EROFS has marked the inode bad, once; a call that
\* ends with one of these three has not.
C33_DropOnceBadOnFailure ==
    UnlinkCall =>
        /\ Count(ret.tr, "drop_nlink") = IF ret.err = "0" THEN 1 ELSE 0
        /\ i_nlink[ret.c.ino] =
              ret.pre.i_nlink - (IF ret.err = "0" THEN 1 ELSE 0)
        /\ (LookedUp /\ ret.err \notin Benign \cup {"0"}) =>
              /\ Count(ret.tr, "make_bad_inode") = 1
              /\ ret.c.ino \in i_bad
        /\ ret.err \in Benign => ~Has(ret.tr, "make_bad_inode")

\* C33 witness: the paired name could not be removed after the first one
\* was; the inode is bad and its link count is what it was.
C33_Witness ==
    /\ UnlinkCall /\ ret.c.f = "indx_delete_entry_2"
    /\ ret.err = "EINVAL"
    /\ Len(mrec[ret.c.ino].fnames) = Len(ret.pre.rec.fnames) - 1
    /\ ret.c.ino \in i_bad
    /\ i_nlink[ret.c.ino] = ret.pre.i_nlink

\* C33 witness: two names were removed and the link count went down by one.
C33_WitnessPair ==
    /\ UnlinkCall /\ ret.err = "0"
    /\ Len(mrec[ret.c.ino].fnames) = Len(ret.pre.rec.fnames) - 2
    /\ i_nlink[ret.c.ino] = ret.pre.i_nlink - 1
    /\ ret.c.ino \notin i_bad

\* C33 witness: the name was not found in the record.
C33_WitnessNoEnt ==
    /\ UnlinkCall /\ ret.err = "ENOENT"
    /\ ret.c.ino \in i_bad

\* C33 witness: the index refused with EROFS and the inode stayed good.
C33_WitnessBenign ==
    /\ UnlinkCall /\ ret.err = "EROFS" /\ LookedUp
    /\ ret.c.ino \notin i_bad

\* ------------------------------------------------------------------- C34
\* Calls that change a record, the record bitmap, an index, the reparse
\* index or the cluster bitmap.
DiskSteps == MutSteps \cup {"ntfs_look_free_mft", "ntfs_mark_rec_free"}
DirtyFirst(tr) ==
    \A k \in 1..Len(tr) :
        tr[k] \in DiskSteps => \E j \in 1..(k - 1) : tr[j] = "ntfs_set_state"

\* C34: in a call of ntfs_create_inode, ntfs_link_inode or
\* ntfs_unlink_inode every change of a record, of the record bitmap, of an
\* index, of the reparse index or of the clusters comes after the call of
\* ntfs_set_state, and the volume is dirty when anything has changed; a call
\* that returns without having called ntfs_set_state has failed and has left
\* the dirty state and all of these structures as they were.
C34_DirtyBeforeChange ==
    [][ret'.op \in {"create", "link", "unlink"} =>
          /\ DirtyFirst(ret'.tr)
          /\ <<mrec, mft_used, index, run, clst_used, reparse>>'
                # <<mrec, mft_used, index, run, clst_used, reparse>>
                => (Has(ret'.tr, "ntfs_set_state") /\ dirty')
          /\ ~Has(ret'.tr, "ntfs_set_state") =>
                /\ ret'.err # "0"
                /\ UNCHANGED <<mrec, mft_used, index, run, clst_used,
                               reparse, dirty, i_nlink, i_bad>>]_vars

\* C34 witness: a create failed at the allocation of the name buffer on a
\* clean volume.
C34_Witness ==
    /\ ret.op = "create" /\ ret.c.f = "__getname"
    /\ ret.err = "ENOMEM"
    /\ ~dirty
    /\ ~Has(ret.tr, "ntfs_set_state")

\* C34 witness: the removal of a non-empty directory was refused before
\* ntfs_set_state.
C34_WitnessNotEmpty ==
    /\ ret.op = "unlink" /\ ret.err = "ENOTEMPTY"
    /\ ~Has(ret.tr, "ntfs_set_state")
    /\ Has(ret.tr, "ni_unlock")

\* C34 witness: a link went through, after the volume was marked dirty.
C34_WitnessLink ==
    /\ ret.op = "link" /\ ret.err = "0"
    /\ Pos(ret.tr, "ntfs_set_state") < Pos(ret.tr, "ni_insert_resident")
    /\ dirty

\* ------------------------------------------------------------------- C35
OldValid == ret.pre.i_valid
BufferedWrite ==
    /\ ret.op = "get_block" /\ ret.c.create
    /\ ret.c.ctx # GET_BLOCK_DIRECT_IO_W
DirectWrite == ret.op = "direct_IO" /\ ret.c.wr

\* C35: no call of ntfs_get_block_vbo or ntfs_direct_IO lowers valid_size.
\* A resolve without create, a resolve for a direct write and a direct read
\* leave it as it was; a resolve with create changes it only when the
\* offset is at or above the old value, and then to the offset plus the
\* length it mapped; a direct write changes it only when it transferred at
\* least one byte and ended above the old value, and then to the position
\* where it ended.
C35_ValidNeverDecreases ==
    /\ ret.op \in {"get_block", "direct_IO"} => i_valid >= OldValid
    /\ (ret.op = "get_block" /\ ~BufferedWrite) => i_valid = OldValid
    /\ (BufferedWrite /\ i_valid # OldValid) =>
          /\ ret.c.vbo >= OldValid
          /\ ret.err = "0" /\ ret.bh.mapped
          /\ i_valid = ret.c.vbo + ret.bh.b_size
    /\ (ret.op = "direct_IO" /\ ~ret.c.wr) => i_valid = OldValid
    /\ DirectWrite =>
          i_valid = IF ret.ret > 0 /\ ret.c.vbo + ret.ret > OldValid
                    THEN ret.c.vbo + ret.ret ELSE OldValid

\* C35 witness: a buffered write resolve above valid_size raised it.
C35_Witness ==
    /\ BufferedWrite
    /\ ret.c.vbo > OldValid
    /\ i_valid = ret.c.vbo + ret.bh.b_size
    /\ i_valid > OldValid

\* C35 witness: a direct write that ended below valid_size left it alone.
C35_WitnessBelow ==
    /\ DirectWrite /\ ret.ret > 0
    /\ ret.c.vbo + ret.ret < OldValid
    /\ i_valid = OldValid

\* C35 witness: a direct write that ended above valid_size moved it there.
C35_WitnessDirect ==
    /\ DirectWrite /\ ret.ret > 0
    /\ i_valid = ret.c.vbo + ret.ret
    /\ i_valid > OldValid

\* C35 witness: a direct write failed.
C35_WitnessFailed ==
    /\ DirectWrite /\ ret.ret < 0
    /\ ~resident /\ i_valid = OldValid

\* ------------------------------------------------------------------- C36
\* The attributes of the record that was loaded.
AllAttrs == ret.c.prim \o ret.c.alist
NonDos == {k \in 1..Len(AllAttrs) :
              AllAttrs[k].type = "ATTR_NAME" /\ ~AllAttrs[k].dos}
Matching == {k \in NonDos : AllAttrs[k].v = ret.c.name}
\* The load went through the record checks and walked a base record whose
\* attributes have the right form and hold a STANDARD_INFO.
LoadedBase ==
    /\ ret.op = "read_mft" /\ ret.err # "walk"
    /\ ret.c.f = "none" /\ ret.c.base
WellFormed ==
    /\ \A k \in 1..Len(AllAttrs) : AllAttrs[k].ok
    /\ \E k \in 1..Len(AllAttrs) : AllAttrs[k].type = "ATTR_STD"
LoadEnded == ret.op = "read_mft" /\ ret.err # "walk"
CountsAndExit ==
    /\ (LoadedBase /\ ret.err = "0"
          /\ ret.w.mode \in {"S_IFREG", "S_IFLNK"}) =>
          ret.w.nlink = Cardinality(NonDos)
    /\ (LoadedBase /\ ret.err = "0" /\ ret.w.mode = "S_IFDIR") =>
          ret.w.nlink = 1
    /\ (LoadEnded /\ ret.err # "0") => ret.tr = <<"iget_failed">>
    /\ (LoadEnded /\ ret.err = "0") => ret.tr = <<"unlock_new_inode">>

\* C36 as stated: after a successful load the link count of a file or a
\* symlink is the number of FILE_NAME attributes that are not DOS names and
\* that of a directory is 1; a record without such a name fails with
\* EINVAL; a load by a name that no such attribute has fails with ENOENT;
\* every failure ends in iget_failed, success in one unlock_new_inode.
C36_LinkCountAndErrors ==
    /\ CountsAndExit
    /\ (LoadedBase /\ WellFormed /\ NonDos = {}) => ret.err = "EINVAL"
    /\ (LoadedBase /\ WellFormed /\ ret.c.name # 0 /\ Matching = {}) =>
          ret.err = "ENOENT"

\* C36, amended: as above, but the match is tested before the count: a load
\* by name of a record without a name that is not DOS fails with ENOENT
\* like every load by a name that is not in the record, and only the load
\* by record number of such a record fails with EINVAL.
C36_LinkCountAndErrorOrder ==
    /\ CountsAndExit
    /\ (LoadedBase /\ WellFormed /\ NonDos = {} /\ ret.c.name = 0) =>
          ret.err = "EINVAL"
    /\ (LoadedBase /\ WellFormed /\ ret.c.name # 0 /\ Matching = {}) =>
          ret.err = "ENOENT"

\* C36 witness: a load by name of a record with two names that are not DOS
\* and one that is succeeded with a link count of 2.
C36_Witness ==
    /\ LoadedBase /\ ret.err = "0"
    /\ ret.c.name # 0
    /\ ret.w.mode = "S_IFREG"
    /\ Cardinality(NonDos) = 2
    /\ \E k \in 1..Len(AllAttrs) : AllAttrs[k].dos
    /\ ret.w.nlink = 2

\* C36 witness: a directory with two names was loaded with a link count
\* of 1.
C36_WitnessDir ==
    /\ LoadedBase /\ ret.err = "0"
    /\ ret.w.mode = "S_IFDIR"
    /\ Cardinality(NonDos) = 2
    /\ ret.w.nlink = 1

\* C36 witness: a load by name of a record whose only name is a DOS name
\* failed with ENOENT.
C36_WitnessDosOnly ==
    /\ LoadedBase /\ WellFormed
    /\ NonDos = {} /\ ret.c.name # 0
    /\ \E k \in 1..Len(AllAttrs) : AllAttrs[k].dos
    /\ ret.err = "ENOENT"

====
